---- MODULE Spec2Model ----
(***************************************************************************)
(* openephys-zmq2osc: the Channel Buffer Manager (DataManager) and the     *)
(* data path of the connection loop (ZMQService) that feeds it.            *)
(*                                                                         *)
(* Samples are labelled: the k-th sample pushed to a channel since the     *)
(* last (re)initialisation carries the value k, and 0 is the value of a    *)
(* buffer cell that was never written (np.zeros).  A returned slice thus   *)
(* shows which samples of the channel it holds.                            *)
(* Time is time.time() counted in whole ticks.                             *)
(***************************************************************************)
EXTENDS Integers, Sequences, FiniteSets

\* ---------------------------------------------------------------- bounds

\* DataManager.buffer_size (30000 in the source), scaled down.
buffer_size == 3
\* Channel ids carried by frames / passed to the manager: MinChannelId..MaxChannelId.
MaxChannelId == 1
\* The clock stops at MaxTime.
MaxTime == 2

\* The observations of channel ids recorded between two reinits.
MaxObserved == 4
\* The clock of the heartbeat loop stops at MaxClock: long enough for two
\* crossings of not_responding_timeout_duration.
MaxClock == 24
\* The channels of the processing pipeline.
NumChannels == 2
\* Downsampling factors run up to MaxFactor, batch sizes up to MaxBatch.
MaxFactor == 3
MaxBatch == 3
\* The samples delivered to the pipeline between two resets, and the largest block.
MaxInput == 6
MaxBlock == 4
\* The largest queue depth configured and the datalists received in a run.
MaxQueueSize == 5
MaxReceived == 7
\* The publishes and the subscribe/unsubscribe calls made on the bus in a run.
MaxPublishes == 2
MaxBusCalls == 2
\* The highest message number of a frame, and the most frames handled.
MaxMessageNum == 3
MaxMessages == 2
\* The downsampling factor of the sender, and the most reinits of the manager.
SenderFactor == 2
MaxEpoch == 1
MaxKeys == 2
MaxCommands == 2
MaxQueued == 2
\* The channel ids a data frame carries.
ChannelIds == 0..MaxChannelId
\* The channel ids push_data is called with: one below and one above ChannelIds too.
PushIds == (0 - 1)..(MaxChannelId + 1)
\* Block sizes of one push, up to one more than the capacity.
BlockSizes == 1..(buffer_size + 1)
\* Between two reinits no more than MaxSamples samples are pushed in all:
\* enough to fill one channel beyond its capacity.
MaxSamples == buffer_size + 1
\* The timeout windows configure_timeout is called with: the shortest and the
\* longest the clock can show.  DataManager's own default (5.0 s) is the longest.
TimeoutChoices == {1, MaxTime}
\* Arguments of pop_data_all_channels and has_data_ready.
PopCounts == 0..(buffer_size + 1)

VARIABLES
    channels,                \* DataManager.channels: Seq of channel records, id c at c+1
    lowest_tail_index,       \* DataManager.lowest_tail_index
    channel_discovery_mode,  \* DataManager.channel_discovery_mode
    discovered_channels,     \* DataManager.discovered_channels
    max_channel_id,          \* DataManager.max_channel_id
    last_data_time,          \* DataManager.last_data_time
    timeout_seconds,         \* DataManager.timeout_seconds
    auto_reinit_enabled,     \* DataManager.auto_reinit_enabled
    timeout_triggered,       \* DataManager.timeout_triggered
    now,                     \* time.time()
    ret,                     \* the last operation: its name, arguments and result
    published,               \* events published on the bus by the last operation
    observed,                \* history: the ids passed to add_or_expand_channel since the last reinit
    fired,                   \* history: check_timeout returned True since the last push,
                             \*          configure_timeout or reinit
    last_push,               \* history: when data was last pushed since the last reinit, -1 if never
    reinit_reports,          \* history: the previous channel counts reported by the reinits
                             \*          that followed one another with no operation in between
    connection_status,       \* ZMQService.connection_status
    socket_waits_reply,      \* ZMQService.socket_waits_reply
    last_heartbeat_timestamp,\* ZMQService.last_heartbeat_timestamp
    last_reply_timestamp,    \* ZMQService.last_reply_timestamp
    heartbeat_socket,        \* ZMQService.heartbeat_socket: "none", or the state of the REQ
                             \*   socket, "idle" (may send) or "awaiting" (sent, reply not read)
    heartbeat_registered,    \* heartbeat_socket is registered with ZMQService.poller
    reply_ready,             \* a reply can be read from heartbeat_socket
    run_pc,                  \* where ZMQService._run stands
    status_trace,            \* history: connection_status before the last step, then the
                             \*          values the step assigned to it, in order
    heartbeat_sent_at,       \* history: when the heartbeat still unanswered was sent
    last_contact,            \* history: when a reply was last read or the sockets were last
                             \*          rebuilt (construction if neither)
    last_rebuild,            \* history: when the sockets were last rebuilt by _reconnect
    sp_num_channels,         \* DataProcessor.num_channels (and the buffers'), 0 before initialize
    downsampling_factor,     \* DataProcessor.downsampling_factor / DownsamplingBuffer.downsampling_factor
    downsampling_method,     \* DataProcessor.downsampling_method / DownsamplingBuffer.method
    ds_sample_buffer,        \* DownsamplingBuffer.sample_buffer: downsampling_factor rows
    buffer_position,         \* DownsamplingBuffer.buffer_position
    samples_accumulated,     \* DownsamplingBuffer.samples_accumulated
    batch_size,              \* DataProcessor.batch_size / BatchingBuffer.batch_size
    batch_timeout_ms,        \* DataProcessor.batch_timeout_ms / BatchingBuffer.batch_timeout_ms
    bb_sample_buffer,        \* BatchingBuffer.sample_buffer: the pending samples
    last_batch_time,         \* BatchingBuffer.last_batch_time
    sp_inputs,               \* history: the samples delivered since the last reset, one row each
    sp_reduced,              \* history: the samples the downsampling stage returned since the
                             \*          last reset, as the caller holds them
    sp_added,                \* history: the values of the samples given to the batching stage
                             \*          since the last reset
    sp_batches,              \* history: the batches emitted since the last reset
    osc_running,             \* OSCService._running: constructed and started
    data_queue,              \* OSCService._data_queue; item k is the k-th datalist received
    queue_max_size,          \* OSCService._queue_max_size
    queue_overflow_strategy, \* OSCService._queue_overflow_strategy
    queue_overflows,         \* OSCService._queue_overflows
    messages_dropped,        \* OSCService._messages_dropped
    osc_received,            \* history: the datalists handed to _on_data_received
    osc_sent,                \* history: the items the sender loop took from the queue
    subscribers,             \* EventBus._subscribers: per event type, the list of callbacks
                             \*   (no key and an empty list behave alike)
    bus_lock,                \* EventBus._lock, an RLock: its owner and its count
    stack,                   \* per thread, the calls in progress, innermost last
    publishes,               \* history: per publish, its event, the list at its copy and
                             \*          the length of bus_log then, the callbacks invoked,
                             \*          the events they were handed, how it ended
    bus_calls,               \* history: the subscribe and unsubscribe calls made
    bus_log,                 \* history: the subscribe and unsubscribe calls in the order
                             \*          in which they took effect
    app_pc,                  \* OpenEphysZMQ2OSC: "new" once constructed, "run" once started,
                             \*   "exited" once run() has returned
    shutdown_requested,      \* OpenEphysZMQ2OSC._shutdown_requested
    zmq_running,             \* ZMQService._running
    interface_running,       \* CLIInterface._running
    stop_calls,              \* history: the stop() calls made, by component, in order
    signalled,               \* history: the signal handler or _on_shutdown_requested ran
    in_push,                 \* the push_data call the connection thread is executing:
                             \*   its arguments, and whether the channel it holds is
                             \*   still an entry of DataManager.channels
    timeouts_fired,          \* history: how often _handle_data_timeout found a fresh
                             \*   timeout since data was last pushed or the timeout
                             \*   was configured
    message_num,             \* ZMQService.message_num
    message_log,             \* history: the data-socket frames handled, each with its
                             \*   number and type, whether a missed message was
                             \*   printed for it, and the handler it was passed to
    open_data_sockets,       \* the data sockets the service created and that are not closed
    open_heartbeat_sockets,  \* the heartbeat sockets the service created and that are
                             \*   not closed
    epoch,                   \* history: the reinits of the manager completed so far
    epoch_of,                \* history: for each delivery item, by its number, the epoch
                             \*   in which its samples were popped
    sender_window,           \* SignalProcessor: the items whose samples the downsampling
                             \*   window holds
    windows_emitted,         \* history: the windows reduced and sent, in order
    queue_lock,              \* OSCService._queue_lock: the thread that holds it, or "none"
    sender_pc,               \* where the sender loop is: "idle", "locked" or "send"
    enqueue_pc,              \* where the enqueue handler is: "idle" or "locked"
    queue_accesses,          \* history: the reads and writes of the queue and of its
                             \*   counters made by the last step, each with the thread
                             \*   and whether the thread held _queue_lock
    dispatch,                \* the EventBus.publish calls in progress, innermost last:
                             \*   each with its event and the callbacks still to call
    chain_log,               \* history: the events published and the reinits made
    keys_pressed,            \* history: the Ctrl+F keys the interface has read
    view_queue,              \* the datalists in OSCService._data_queue: each a list of
                             \*   slices of the manager's arrays, with what it held when
                             \*   it was published
    transmitted,             \* history: the last datalist sent, as published and as sent
    service_loop,            \* where ZMQService._run is: "not_started", "looping" or
                             \*   "cleaned_up" (the loop left and _cleanup run)
    last_iteration,          \* history: how the last turn of ZMQService._run ended
    connection_active,       \* OSCService._connection_active
    send_log                 \* history: the items the sender loop dequeued, each with
                             \*   what _send_data did with it

dm_vars == <<channels, lowest_tail_index, channel_discovery_mode,
             discovered_channels, max_channel_id, last_data_time,
             timeout_seconds, auto_reinit_enabled, timeout_triggered>>

history == <<observed, fired, last_push>>

\* The buffers' side of the state, all but the clock and the operation record.
data_vars == <<channels, lowest_tail_index, channel_discovery_mode,
               discovered_channels, max_channel_id, last_data_time,
               timeout_seconds, auto_reinit_enabled, timeout_triggered,
               published, observed, fired, last_push, reinit_reports>>

\* The heartbeat side of ZMQService.
hb_vars == <<connection_status, socket_waits_reply, last_heartbeat_timestamp,
             last_reply_timestamp, heartbeat_socket, heartbeat_registered,
             reply_ready, run_pc, status_trace, heartbeat_sent_at,
             last_contact, last_rebuild>>

\* The processing pipeline: DataProcessor with its two stages.
sp_vars == <<sp_num_channels, downsampling_factor, downsampling_method,
             ds_sample_buffer, buffer_position, samples_accumulated,
             batch_size, batch_timeout_ms, bb_sample_buffer, last_batch_time,
             sp_inputs, sp_reduced, sp_added, sp_batches>>

\* The output queue of OSCService with its counters.
osc_vars == <<osc_running, data_queue, queue_max_size, queue_overflow_strategy,
              queue_overflows, messages_dropped, osc_received, osc_sent>>

\* The event bus and the calls in progress on it.
bus_vars == <<subscribers, bus_lock, stack, publishes, bus_calls, bus_log>>

\* The application object and the running flags of the components it starts
\* and stops (that of OSCService is osc_running).
app_vars == <<app_pc, shutdown_requested, zmq_running, interface_running,
              stop_calls, signalled>>

\* The sequence tracking of the data socket's frames.
msg_vars == <<message_num, message_log>>

\* The sockets the service holds open.
sock_vars == <<open_data_sockets, open_heartbeat_sockets>>

\* The sender's downsampling and the epochs of the samples it handles.
sender_vars == <<epoch, epoch_of, sender_window, windows_emitted>>

\* The queue's mutex and the threads around it.
lock_vars == <<queue_lock, sender_pc, enqueue_pc, queue_accesses>>

\* The connection thread's loop.
loop_vars == <<service_loop, last_iteration>>

\* The OSC client's connection.
conn_vars == <<connection_active, send_log>>

\* The datalists on their way from the manager to the OSC client.
view_vars == <<view_queue, transmitted>>

\* The status updates travelling between the components.
chain_vars == <<dispatch, chain_log, keys_pressed>>

\* The wiring between the components.
wiring_vars == <<chain_vars, view_vars, loop_vars, conn_vars>>

\* What the manager's operations leave alone when two threads run them.
beside_threads == <<hb_vars, sp_vars, osc_vars, bus_vars, app_vars, timeouts_fired,
                    msg_vars, sock_vars, sender_vars, lock_vars, wiring_vars>>

\* What the operations of the buffers and of the data path leave alone.
beside_data == <<beside_threads, in_push>>

\* What the heartbeat side of the service loop leaves alone.
beside_heartbeat == <<data_vars, sp_vars, osc_vars, bus_vars, app_vars, in_push,
                      timeouts_fired, msg_vars, sender_vars, lock_vars, wiring_vars>>

\* What the processing pipeline leaves alone.
beside_pipeline == <<data_vars, hb_vars, osc_vars, bus_vars, app_vars, in_push,
                     timeouts_fired, msg_vars, sock_vars, sender_vars, lock_vars, wiring_vars>>

\* What the output queue leaves alone.
beside_osc == <<data_vars, hb_vars, sp_vars, bus_vars, app_vars, in_push,
                timeouts_fired, msg_vars, sock_vars>>

\* What the event bus leaves alone.
beside_bus == <<now, ret, data_vars, hb_vars, sp_vars, osc_vars, app_vars, in_push,
                timeouts_fired, msg_vars, sock_vars, sender_vars, lock_vars, wiring_vars>>

\* What the application object leaves alone.
beside_app == <<now, data_vars, hb_vars, sp_vars, bus_vars, in_push, timeouts_fired,
                msg_vars, sock_vars, sender_vars, lock_vars, wiring_vars,
                data_queue, queue_max_size, queue_overflow_strategy,
                queue_overflows, messages_dropped, osc_received, osc_sent>>

vars == <<channels, lowest_tail_index, channel_discovery_mode,
          discovered_channels, max_channel_id, last_data_time,
          timeout_seconds, auto_reinit_enabled, timeout_triggered,
          now, ret, published, observed, fired, last_push, reinit_reports,
          hb_vars, sp_vars, osc_vars, bus_vars, app_vars, in_push, timeouts_fired,
          msg_vars, sock_vars, sender_vars, lock_vars, wiring_vars>>

\* ------------------------------------------------------------- helpers

Min(S) == CHOOSE x \in S : \A y \in S : x <= y
Max2(a, b) == IF a >= b THEN a ELSE b

\* Python's list indexing channels[ch_id], a negative index counting from the end.
PyIndex(chs, ch_id) == IF ch_id < 0 THEN Len(chs) + ch_id + 1 ELSE ch_id + 1

\* A numpy slice data[a:b] with 0 <= a, b: empty when a >= b.
Slice(data, a, b) == [i \in 1..(IF b > a THEN b - a ELSE 0) |-> data[a + i - 1]]

\* One entry of DataManager.channels (the label is not modelled).
EmptyChannel(i) ==
    [id |-> i, head_sample_number |-> 0, tail_index |-> 0,
     tail_sample_number |-> 0, data |-> [j \in 0..(buffer_size - 1) |-> 0]]

\* The reports of consecutive reinits, the last two of them kept.
Reported(reports, count) ==
    IF Len(reports) < 2 THEN Append(reports, count) ELSE <<reports[2], count>>

\* The result record of an operation.
NoPrevious == [discovered_channels |-> {}, total_channels |-> 0, buffer_channels |-> 0]
Ret(op, c, n, err, flag, popped, prev) ==
    [op |-> op, c |-> c, n |-> n, err |-> err, flag |-> flag,
     popped |-> popped, previous_state |-> prev]

Unconsumed(ch) == ch.tail_sample_number - ch.head_sample_number

RECURSIVE SumTail(_)
\* The samples pushed to all channels since the last (re)initialisation.
SumTail(chs) ==
    IF chs = <<>> THEN 0 ELSE Head(chs).tail_sample_number + SumTail(Tail(chs))

\* The block a push of k samples delivers to channel ch: its next k samples.
Block(ch, k) == [i \in 1..k |-> ch.tail_sample_number + i]

\* ------------------------------------------------------- DataManager

\* init_empty_buffer(num_channels, num_samples)
init_empty_buffer(num_channels) == [i \in 1..num_channels |-> EmptyChannel(i - 1)]

\* update_lowest_tail_index, as a function of the channels and the discovered set
LowestTailIndex(chs, disc) ==
    IF Len(chs) = 0 \/ disc = {} THEN 0
    ELSE LET idx == {chs[PyIndex(chs, c)].tail_index : c \in {d \in disc : d < Len(chs)}}
         IN  IF idx # {} THEN Min(idx) ELSE 0

\* The circular write of push_data: data with block written at tail_index.
WriteBlock(data, tail_index, block) ==
    LET num_samples == Len(block)
        end_index == tail_index + num_samples
        first_part == buffer_size - tail_index
    IN  IF end_index <= buffer_size
        THEN [j \in 0..(buffer_size - 1) |->
                IF j >= tail_index /\ j < end_index
                THEN block[j - tail_index + 1] ELSE data[j]]
        ELSE [j \in 0..(buffer_size - 1) |->
                IF j >= tail_index THEN block[j - tail_index + 1]
                ELSE IF j < end_index % buffer_size THEN block[first_part + j + 1]
                ELSE data[j]]

\* The error push_data raises for (channel_id, num_samples), "" when it raises none.
PushError(chs, channel_id, num_samples) ==
    IF channel_id < 0 \/ channel_id >= Len(chs) THEN "Invalid channel ID."
    ELSE IF num_samples > buffer_size THEN "Data exceeds buffer size."
    ELSE ""

\* A push that writes the block and moves tail_index but leaves the sample
\* count alone.
PushedChannelUncounted(ch, block) ==
    [ch EXCEPT !.data = WriteBlock(ch.data, ch.tail_index, block),
               !.tail_index = (ch.tail_index + Len(block)) % buffer_size]

\* The channel after push_data wrote block to it.
PushedChannel(ch, block) ==
    [ch EXCEPT !.data = WriteBlock(ch.data, ch.tail_index, block),
               !.tail_index = (ch.tail_index + Len(block)) % buffer_size,
               !.tail_sample_number = ch.tail_sample_number + Len(block)]

\* A push_data that stamps the data time before it validates its arguments.
PushEffectStampsFirst(channel_id, num_samples) ==
    LET err == PushError(channels, channel_id, num_samples) IN
    IF err # ""
    THEN /\ last_data_time' = now
         /\ timeout_triggered' = FALSE
         /\ UNCHANGED <<channels, lowest_tail_index>>
    ELSE LET ch == channels[channel_id + 1]
             chs == [channels EXCEPT ![channel_id + 1] = PushedChannel(ch, Block(ch, num_samples))]
         IN  /\ channels' = chs
             /\ lowest_tail_index' = LowestTailIndex(chs, discovered_channels)
             /\ last_data_time' = now
             /\ timeout_triggered' = FALSE

\* push_data's effect on the manager; the caller sets ret and published.
PushEffect(channel_id, num_samples) ==
    LET err == PushError(channels, channel_id, num_samples) IN
    IF err # ""
    THEN UNCHANGED <<channels, lowest_tail_index, last_data_time, timeout_triggered>>
    ELSE LET ch == channels[channel_id + 1]
             chs == [channels EXCEPT ![channel_id + 1] = PushedChannel(ch, Block(ch, num_samples))]
         IN  /\ channels' = chs
             /\ lowest_tail_index' = LowestTailIndex(chs, discovered_channels)
             /\ last_data_time' = now
             /\ timeout_triggered' = FALSE

push_data(channel_id, num_samples) ==
    /\ PushError(channels, channel_id, num_samples) = ""
         => SumTail(channels) + num_samples <= MaxSamples
    /\ PushEffect(channel_id, num_samples)
    /\ ret' = Ret("push_data", channel_id, num_samples,
                  PushError(channels, channel_id, num_samples), FALSE, <<>>, NoPrevious)
    /\ IF PushError(channels, channel_id, num_samples) = ""
       THEN fired' = FALSE /\ last_push' = now
       ELSE UNCHANGED <<fired, last_push>>
    /\ UNCHANGED <<channel_discovery_mode, discovered_channels, max_channel_id,
                   timeout_seconds, auto_reinit_enabled, now, published, observed>>
    /\ reinit_reports' = <<>>

\* pop_data's slice and the channel after it.
PoppedData(ch, n) == Slice(ch.data, (ch.tail_index - n) % buffer_size, ch.tail_index)
PoppedChannel(ch, n) ==
    [ch EXCEPT !.head_sample_number = ch.head_sample_number + n,
               !.tail_index = (ch.tail_index - n) % buffer_size]

\* The first channel (position) pop_data_all_channels finds short of n samples, 0 if none.
FirstShort(chs, n) ==
    LET short == {i \in 1..Len(chs) : Unconsumed(chs[i]) < n}
    IN  IF short = {} THEN 0 ELSE Min(short)

\* The error pop_data_all_channels raises, "" when it raises none.
PopError(chs, n) ==
    IF n <= 0 THEN "Number of samples to pop must be positive."
    ELSE IF FirstShort(chs, n) # 0 THEN "Not enough data in channel"
    ELSE ""

\* The channels after pop_data_all_channels(n): the loop pops channel after
\* channel and stops at the first one that is short.
PopChannels(chs, n) ==
    IF n <= 0 THEN chs
    ELSE LET s == FirstShort(chs, n)
         IN  [i \in 1..Len(chs) |->
                IF s = 0 \/ i < s THEN PoppedChannel(chs[i], n) ELSE chs[i]]

\* The list pop_data_all_channels(n) returns when it raises nothing.
PopResult(chs, n) == [i \in 1..Len(chs) |-> PoppedData(chs[i], n)]

pop_data_all_channels(n) ==
    LET err == PopError(channels, n)
        chs == PopChannels(channels, n)
    IN  /\ channels' = chs
        /\ lowest_tail_index' =
             IF err = "" THEN LowestTailIndex(chs, discovered_channels)
             ELSE lowest_tail_index
        /\ ret' = Ret("pop_data_all_channels", 0, n, err, FALSE,
                      IF err = "" THEN PopResult(channels, n) ELSE <<>>, NoPrevious)
        /\ UNCHANGED <<channel_discovery_mode, discovered_channels, max_channel_id,
                       last_data_time, timeout_seconds, auto_reinit_enabled,
                       timeout_triggered, now, published, history>>
        /\ reinit_reports' = <<>>

\* A has_data_ready that does not look at channel_discovery_mode.
HasDataReadyIgnoringDiscovery(chs, mode, lowest, min_samples) ==
    IF Len(chs) = 0 THEN FALSE
    ELSE lowest >= min_samples

\* has_data_ready(min_samples) of a manager with these channels, this
\* channel_discovery_mode and this lowest_tail_index.
HasDataReady(chs, mode, lowest, min_samples) ==
    IF Len(chs) = 0 THEN FALSE
    ELSE IF mode THEN FALSE
    ELSE lowest >= min_samples

has_data_ready(min_samples) ==
    HasDataReady(channels, channel_discovery_mode, lowest_tail_index, min_samples)

\* The channel list after add_or_expand_channel grew it to max_id + 1 entries.
Expanded(chs, max_id) ==
    [i \in 1..Max2(Len(chs), max_id + 1) |->
        IF i <= Len(chs) THEN chs[i] ELSE EmptyChannel(i - 1)]

\* An add_or_expand_channel that reports completion on every repeated id.
DiscoveryCompletesOnEveryRepeat(channel_id) ==
    channel_id \in discovered_channels

\* Whether add_or_expand_channel(channel_id) returns True.
DiscoveryCompletes(channel_id) ==
    channel_id \in discovered_channels /\ channel_discovery_mode

\* add_or_expand_channel's effect on the manager.
AddOrExpandEffect(channel_id) ==
    IF channel_id \in discovered_channels
    THEN /\ channel_discovery_mode' = FALSE
         /\ UNCHANGED <<discovered_channels, max_channel_id>>
    ELSE /\ discovered_channels' = discovered_channels \cup {channel_id}
         /\ max_channel_id' = Max2(max_channel_id, channel_id)
         /\ UNCHANGED channel_discovery_mode

add_or_expand_channel(channel_id) ==
    /\ AddOrExpandEffect(channel_id)
    /\ channels' = IF channel_id \in discovered_channels THEN channels
                   ELSE Expanded(channels, Max2(max_channel_id, channel_id))
    /\ ret' = Ret("add_or_expand_channel", channel_id, 0, "",
                  DiscoveryCompletes(channel_id), <<>>, NoPrevious)
    /\ UNCHANGED <<lowest_tail_index, last_data_time, timeout_seconds,
                   auto_reinit_enabled, timeout_triggered, now, published,
                   fired, last_push>>
    /\ reinit_reports' = <<>>

\* configure_timeout(timeout_seconds, auto_reinit)
configure_timeout(seconds, auto_reinit) ==
    /\ timeout_seconds' = seconds
    /\ auto_reinit_enabled' = auto_reinit
    /\ timeout_triggered' = FALSE
    /\ ret' = Ret("configure_timeout", 0, 0, "", FALSE, <<>>, NoPrevious)
    /\ published' = <<>>
    /\ fired' = FALSE
    /\ UNCHANGED <<channels, lowest_tail_index, channel_discovery_mode,
                   discovered_channels, max_channel_id, last_data_time, now,
                   observed, last_push>>
    /\ reinit_reports' = <<>>

\* A check_timeout that does not look at timeout_triggered.
TimeoutFiresWhileTriggered ==
    now - last_data_time >= timeout_seconds

\* Whether check_timeout() returns True.
TimeoutFires ==
    ~timeout_triggered /\ now - last_data_time >= timeout_seconds

check_timeout ==
    /\ timeout_triggered' = (timeout_triggered \/ TimeoutFires)
    /\ ret' = Ret("check_timeout", 0, 0, "", TimeoutFires, <<>>, NoPrevious)
    /\ fired' = (fired \/ TimeoutFires)
    /\ UNCHANGED <<channels, lowest_tail_index, channel_discovery_mode,
                   discovered_channels, max_channel_id, last_data_time,
                   timeout_seconds, auto_reinit_enabled, now, published,
                   observed, last_push>>
    /\ reinit_reports' = <<>>

\* The previous_state record reinit_for_new_setup returns.
PreviousState ==
    [discovered_channels |-> discovered_channels,
     total_channels |-> Cardinality(discovered_channels),
     buffer_channels |-> Len(channels)]

\* A reinit_for_new_setup that keeps the discovered set.
ReinitEffectKeepsDiscovered ==
    /\ channels' = init_empty_buffer(1)
    /\ max_channel_id' = 0 - 1
    /\ channel_discovery_mode' = TRUE
    /\ lowest_tail_index' = 0
    /\ timeout_triggered' = FALSE
    /\ last_data_time' = now
    /\ UNCHANGED <<discovered_channels, timeout_seconds, auto_reinit_enabled>>

\* reinit_for_new_setup's effect on the manager.
ReinitEffect ==
    /\ channels' = init_empty_buffer(1)
    /\ discovered_channels' = {}
    /\ max_channel_id' = 0 - 1
    /\ channel_discovery_mode' = TRUE
    /\ lowest_tail_index' = 0
    /\ timeout_triggered' = FALSE
    /\ last_data_time' = now
    /\ UNCHANGED <<timeout_seconds, auto_reinit_enabled>>

reinit_for_new_setup ==
    /\ ReinitEffect
    /\ ret' = Ret("reinit_for_new_setup", 0, 0, "", FALSE, <<>>, PreviousState)
    /\ observed' = <<>> /\ fired' = FALSE /\ last_push' = 0 - 1
    /\ reinit_reports' = Reported(reinit_reports, PreviousState.total_channels)
    /\ UNCHANGED <<now, published>>

\* time.time() advances.
Tick ==
    /\ now < MaxTime
    /\ now' = now + 1
    /\ ret' = Ret("tick", 0, 0, "", FALSE, <<>>, NoPrevious)
    /\ UNCHANGED <<dm_vars, published, history, reinit_reports>>

\* --------------------------------------------------------- ZMQService

\* An event on the bus: its type, the "type" entry of a status update, and
\* the fields of its data that the pipeline reads.
Event(type, kind, datalist, num_samples, previous_channels) ==
    [type |-> type, kind |-> kind, datalist |-> datalist,
     num_samples |-> num_samples, previous_channels |-> previous_channels]

DiscoveryCompleteEvent == Event("STATUS_UPDATE", "channel_discovery_complete", <<>>, 0, 0)
DataReceivedEvent == Event("DATA_RECEIVED", "", <<>>, 0, 0)
DataProcessedEvent(datalist, n) == Event("DATA_PROCESSED", "", datalist, n, 0)
TimeoutWarningEvent == Event("STATUS_UPDATE", "data_timeout_warning", <<>>, 0, 0)
ReinitCompletedEvent(kind, previous) == Event("STATUS_UPDATE", kind, <<>>, 0, previous)

\* Whether n_arr.reshape(-1, num_samples) raises for a payload of payload_len samples.
ReshapeFails(payload_len, num_samples) == payload_len % num_samples # 0

\* _process_data_frame for a frame of channel channel_num whose header declares
\* num_samples and whose payload holds payload_len samples; with it
\* _process_buffered_data when has_data_ready(1) holds after the push.
\* The steps in order: add_or_expand_channel, reshape, push_data, has_data_ready,
\* pop_data_all_channels(lowest_tail_index); a ValueError ends the frame where
\* it is raised and keeps what was done before.
_process_data_frame(channel_num, num_samples, payload_len) ==
    LET completes == DiscoveryCompletes(channel_num)
        known == channel_num \in discovered_channels
        disc1 == discovered_channels \cup {channel_num}
        max1 == IF known THEN max_channel_id ELSE Max2(max_channel_id, channel_num)
        chs1 == IF known THEN channels ELSE Expanded(channels, max1)
        mode1 == IF known THEN FALSE ELSE channel_discovery_mode
        perr == IF ReshapeFails(payload_len, num_samples)
                THEN "cannot reshape array"
                ELSE PushError(chs1, channel_num, payload_len)
        ch == chs1[channel_num + 1]
        chs2 == IF perr # "" THEN chs1
                ELSE [chs1 EXCEPT ![channel_num + 1] =
                                     PushedChannel(ch, Block(ch, payload_len))]
        low2 == IF perr # "" THEN lowest_tail_index ELSE LowestTailIndex(chs2, disc1)
        ready == perr = "" /\ HasDataReady(chs2, mode1, low2, 1)
        samples_to_pop == low2
        operr == IF ready THEN PopError(chs2, samples_to_pop) ELSE ""
        chs3 == IF ready THEN PopChannels(chs2, samples_to_pop) ELSE chs2
        low3 == IF ready /\ operr = "" THEN LowestTailIndex(chs3, disc1) ELSE low2
    IN  /\ perr = "" => SumTail(chs1) + payload_len <= MaxSamples
        /\ channels' = chs3
        /\ lowest_tail_index' = low3
        /\ discovered_channels' = disc1
        /\ max_channel_id' = max1
        /\ channel_discovery_mode' = mode1
        /\ last_data_time' = IF perr = "" THEN now ELSE last_data_time
        /\ timeout_triggered' = IF perr = "" THEN FALSE ELSE timeout_triggered
        /\ published' =
             (IF completes THEN <<DiscoveryCompleteEvent>> ELSE <<>>)
             \o (IF perr = "" THEN <<DataReceivedEvent>> ELSE <<>>)
             \o (IF ready /\ operr = ""
                 THEN <<DataProcessedEvent(PopResult(chs2, samples_to_pop), samples_to_pop)>>
                 ELSE <<>>)
        /\ ret' = Ret("_process_data_frame", channel_num, IF ready THEN samples_to_pop ELSE 0,
                      IF perr # "" THEN perr ELSE operr, completes, <<>>, NoPrevious)
        /\ IF perr = "" THEN fired' = FALSE /\ last_push' = now
           ELSE UNCHANGED <<fired, last_push>>
        /\ reinit_reports' = <<>>
        /\ UNCHANGED <<timeout_seconds, auto_reinit_enabled, now, observed>>

\* _handle_data_timeout, run by every iteration of the service loop.
_handle_data_timeout ==
    /\ IF TimeoutFires
       THEN IF auto_reinit_enabled
            THEN /\ ReinitEffect
                 /\ published' = <<ReinitCompletedEvent("auto_reinit_completed",
                                       PreviousState.total_channels)>>
            ELSE /\ timeout_triggered' = TRUE
                 /\ published' = <<TimeoutWarningEvent>>
                 /\ UNCHANGED <<channels, lowest_tail_index, channel_discovery_mode,
                                discovered_channels, max_channel_id, last_data_time,
                                timeout_seconds, auto_reinit_enabled>>
       ELSE /\ published' = <<>>
            /\ UNCHANGED dm_vars
    /\ ret' = Ret("_handle_data_timeout", 0, 0, "", TimeoutFires, <<>>,
                  IF TimeoutFires /\ auto_reinit_enabled THEN PreviousState ELSE NoPrevious)
    /\ fired' = IF TimeoutFires THEN ~auto_reinit_enabled ELSE fired
    /\ last_push' = IF TimeoutFires /\ auto_reinit_enabled THEN 0 - 1 ELSE last_push
    /\ reinit_reports' = IF TimeoutFires /\ auto_reinit_enabled
                         THEN Reported(reinit_reports, PreviousState.total_channels)
                         ELSE <<>>
    /\ UNCHANGED <<now, observed>>

\* manual_reinit_data_manager, run for an execute_manual_reinit status update.
manual_reinit_data_manager ==
    /\ ReinitEffect
    /\ published' = <<ReinitCompletedEvent("manual_reinit_completed",
                          PreviousState.total_channels)>>
    /\ ret' = Ret("manual_reinit_data_manager", 0, 0, "", FALSE, <<>>, PreviousState)
    /\ fired' = FALSE /\ last_push' = 0 - 1
    /\ reinit_reports' = Reported(reinit_reports, PreviousState.total_channels)
    /\ UNCHANGED <<now, observed>>

\* No push_data call is being executed.
NoPush == [channel_id |-> 0 - 1, num_samples |-> 0, replaced |-> FALSE]

\* The connection thread enters push_data: the arguments are validated and
\* channel = self.channels[channel_id] is taken; the thread can be preempted
\* before it writes.
push_data_enter(channel_id, num_samples) ==
    /\ in_push = NoPush
    /\ PushError(channels, channel_id, num_samples) = ""
    /\ SumTail(channels) + num_samples <= MaxSamples
    /\ in_push' = [channel_id |-> channel_id, num_samples |-> num_samples,
                   replaced |-> FALSE]
    /\ ret' = Ret("push_data_enter", channel_id, num_samples, "", FALSE, <<>>, NoPrevious)
    /\ published' = <<>>
    /\ reinit_reports' = <<>>
    /\ UNCHANGED <<dm_vars, now, history>>

\* The connection thread completes push_data: the block is written to the
\* channel taken on entry and its counters are moved, then
\* update_lowest_tail_index and update_data_timestamp read the manager as it
\* is now.  A channel that is no longer an entry of self.channels takes the
\* block with it.
push_data_finish ==
    /\ in_push # NoPush
    /\ IF in_push.replaced
       THEN /\ lowest_tail_index' = LowestTailIndex(channels, discovered_channels)
            /\ last_data_time' = now
            /\ timeout_triggered' = FALSE
            /\ UNCHANGED channels
       ELSE PushEffect(in_push.channel_id, in_push.num_samples)
    /\ in_push' = NoPush
    /\ ret' = Ret("push_data", in_push.channel_id, in_push.num_samples, "",
                  in_push.replaced, <<>>, NoPrevious)
    /\ fired' = FALSE
    /\ last_push' = now
    /\ published' = <<>>
    /\ reinit_reports' = <<>>
    /\ UNCHANGED <<channel_discovery_mode, discovered_channels, max_channel_id,
                   timeout_seconds, auto_reinit_enabled, now, observed>>

\* _on_status_update for the execute_manual_reinit status update that the
\* interface publishes from its keyboard thread: EventBus.publish calls the
\* callback on the publishing thread, and the callback runs
\* manual_reinit_data_manager there, whatever the connection thread is doing.
zmq_on_status_update ==
    /\ manual_reinit_data_manager
    /\ in_push' = IF in_push = NoPush THEN NoPush ELSE [in_push EXCEPT !.replaced = TRUE]

\* The types a frame's header can name; "other" is none of the three known.
FrameTypes == {"data", "event", "spike", "other"}

\* Whether _handle_data_message prints "Missed a message" for a frame
\* numbered header_num when the last number seen is last.
GapReported(header_num, last) == header_num # last + 1

\* A tracking that follows the frames only while they come in order.
TrackedNumberInOrder(header_num, last) ==
    IF header_num = last + 1 THEN header_num ELSE last

\* The message number _handle_data_message keeps after a frame.
TrackedNumber(header_num, last) == header_num

\* The method _handle_data_message passes a frame of this type to.
Dispatched(type) ==
    IF type = "data" THEN "_process_data_frame"
    ELSE IF type = "event" THEN "_process_event_frame"
    ELSE IF type = "spike" THEN "_process_spike_frame"
    ELSE "Unknown message type"

\* _handle_data_message for a frame with a header: the number is compared
\* and kept, then the frame goes to the method of its type; a data frame is
\* one of channel_num with a single sample.
_handle_data_message(header_num, type, channel_num) ==
    /\ Len(message_log) < MaxMessages
    /\ message_num' = TrackedNumber(header_num, message_num)
    /\ message_log' = Append(message_log,
                             [message_num |-> header_num, type |-> type,
                              gap |-> GapReported(header_num, message_num),
                              dispatched |-> Dispatched(type)])
    /\ IF type = "data"
       THEN _process_data_frame(channel_num, 1, 1)
       ELSE /\ ret' = Ret(Dispatched(type), 0, 0, "", FALSE, <<>>, NoPrevious)
            /\ published' = <<>>
            /\ reinit_reports' = <<>>
            /\ UNCHANGED <<dm_vars, now, history>>

\* time.time() advances between two steps of the service loop.
LoopTick ==
    /\ now < MaxTime
    /\ now' = now + 1
    /\ ret' = Ret("tick", 0, 0, "", FALSE, <<>>, NoPrevious)
    /\ published' = <<>>
    /\ UNCHANGED <<dm_vars, history, reinit_reports>>

\* ------------------------------------------------ ZMQService: heartbeat

\* ZMQService.heartbeat_timeout_duration and not_responding_timeout_duration, in seconds.
heartbeat_timeout_duration == 2
not_responding_timeout_duration == 10

\* last_heartbeat_timestamp starts at 0, the epoch of time.time(): the service
\* is constructed (at time 0 of the model's clock) long after it.
Epoch == 0 - (not_responding_timeout_duration + 1)
\* No such moment yet.
NoTime == Epoch - 1

\* The values _init_sockets assigns to connection_status, in order; ok is
\* false when creating or connecting the data socket raises.
InitSocketsStatuses(ok) ==
    IF ok THEN <<"CONNECTING", "CONNECTED">> ELSE <<"CONNECTING", "NOT_CONNECTED">>

\* _init_sockets: a new context and poller, then the data socket, then the
\* heartbeat socket; when it raises on the way the heartbeat socket is the
\* one held before, not registered with the new poller.
InitSocketsEffect(ok) ==
    /\ connection_status' = InitSocketsStatuses(ok)[2]
    /\ heartbeat_socket' = IF ok THEN "idle" ELSE heartbeat_socket
    /\ heartbeat_registered' = ok
    /\ reply_ready' = IF ok THEN FALSE ELSE reply_ready

\* The first statement of _run.
_init_sockets ==
    /\ run_pc = "start"
    /\ \E ok \in BOOLEAN :
          /\ InitSocketsEffect(ok)
          /\ status_trace' = <<connection_status>> \o InitSocketsStatuses(ok)
    /\ run_pc' = "heartbeat"
    /\ ret' = Ret("_init_sockets", 0, 0, "", FALSE, <<>>, NoPrevious)
    /\ UNCHANGED <<socket_waits_reply, last_heartbeat_timestamp, last_reply_timestamp,
                   heartbeat_sent_at, last_contact, last_rebuild>>
    /\ UNCHANGED <<now, beside_heartbeat>>

\* A _handle_heartbeat_timeout that goes to RECONNECTING without passing
\* through NOT_RESPONDING.
HeartbeatTimeoutStatusesSkipping(lost) ==
    IF lost THEN <<"RECONNECTING">> ELSE <<"NOT_RESPONDING">>

\* The values _handle_heartbeat_timeout itself assigns to connection_status
\* when the heartbeat sent has no reply; lost: the reply is overdue by
\* not_responding_timeout_duration too.
HeartbeatTimeoutStatuses(lost) ==
    <<"NOT_RESPONDING">> \o (IF lost THEN <<"RECONNECTING">> ELSE <<>>)

\* A _reconnect that leaves last_reply_timestamp as it was.
ReplyTimestampKept == last_reply_timestamp

\* last_reply_timestamp after _reconnect.
ReplyTimestampAfterReconnect == now

\* _handle_heartbeat_timeout, with _send_heartbeat and _reconnect.
_handle_heartbeat_timeout ==
    LET expired == (now - last_heartbeat_timestamp) > heartbeat_timeout_duration
        retry == expired /\ socket_waits_reply
        lost == retry /\ (now - last_reply_timestamp) > not_responding_timeout_duration
        send == expired /\ ~socket_waits_reply /\ heartbeat_socket = "idle"
    IN  /\ run_pc = "heartbeat"
        /\ run_pc' = "poll"
        /\ IF lost
           THEN /\ \E ok \in BOOLEAN :
                      /\ InitSocketsEffect(ok)
                      /\ status_trace' = <<connection_status>>
                                           \o HeartbeatTimeoutStatuses(TRUE)
                                           \o InitSocketsStatuses(ok)
                /\ last_heartbeat_timestamp' = last_heartbeat_timestamp + 1
                /\ socket_waits_reply' = FALSE
                /\ last_reply_timestamp' = ReplyTimestampAfterReconnect
                /\ heartbeat_sent_at' = NoTime
                /\ last_contact' = now
                /\ last_rebuild' = now
           ELSE IF retry
           THEN /\ connection_status' = HeartbeatTimeoutStatuses(FALSE)[1]
                /\ status_trace' = <<connection_status>> \o HeartbeatTimeoutStatuses(FALSE)
                /\ last_heartbeat_timestamp' = last_heartbeat_timestamp + 1
                /\ UNCHANGED <<socket_waits_reply, last_reply_timestamp, heartbeat_socket,
                               heartbeat_registered, reply_ready, heartbeat_sent_at,
                               last_contact, last_rebuild>>
           ELSE IF send
           THEN /\ heartbeat_socket' = "awaiting"
                /\ last_heartbeat_timestamp' = now
                /\ socket_waits_reply' = TRUE
                /\ heartbeat_sent_at' = now
                /\ status_trace' = <<connection_status>>
                /\ UNCHANGED <<connection_status, last_reply_timestamp,
                               heartbeat_registered, reply_ready, last_contact,
                               last_rebuild>>
           ELSE /\ status_trace' = <<connection_status>>
                /\ UNCHANGED <<connection_status, socket_waits_reply,
                               last_heartbeat_timestamp, last_reply_timestamp,
                               heartbeat_socket, heartbeat_registered, reply_ready,
                               heartbeat_sent_at, last_contact, last_rebuild>>
        /\ ret' = Ret("_handle_heartbeat_timeout", 0, 0, "", lost, <<>>, NoPrevious)
        /\ UNCHANGED <<now, beside_heartbeat>>

\* Whether the loop, after poll, calls _handle_heartbeat_reply.
ReplyPolled == heartbeat_registered /\ reply_ready /\ socket_waits_reply

\* _handle_heartbeat_reply, called by the loop when the poll shows the
\* heartbeat socket and a reply is awaited.
_handle_heartbeat_reply ==
    /\ run_pc = "poll"
    /\ ReplyPolled
    /\ run_pc' = "heartbeat"
    /\ connection_status' = "ONLINE"
    /\ status_trace' = <<connection_status, "ONLINE">>
    /\ socket_waits_reply' = FALSE
    /\ last_reply_timestamp' = now
    /\ heartbeat_socket' = "idle"
    /\ reply_ready' = FALSE
    /\ heartbeat_sent_at' = NoTime
    /\ last_contact' = now
    /\ ret' = Ret("_handle_heartbeat_reply", 0, 0, "", FALSE, <<>>, NoPrevious)
    /\ UNCHANGED <<last_heartbeat_timestamp, heartbeat_registered, last_rebuild>>
    /\ UNCHANGED <<now, beside_heartbeat>>

\* An iteration of the loop whose poll shows no heartbeat reply to handle.
PollWithoutReply ==
    /\ run_pc = "poll"
    /\ ~ReplyPolled
    /\ run_pc' = "heartbeat"
    /\ status_trace' = <<connection_status>>
    /\ ret' = Ret("poll", 0, 0, "", FALSE, <<>>, NoPrevious)
    /\ UNCHANGED <<connection_status, socket_waits_reply, last_heartbeat_timestamp,
                   last_reply_timestamp, heartbeat_socket, heartbeat_registered,
                   reply_ready, heartbeat_sent_at, last_contact, last_rebuild>>
    /\ UNCHANGED <<now, beside_heartbeat>>

\* The server answers the heartbeat it was sent.
ServerReplies ==
    /\ heartbeat_socket = "awaiting"
    /\ ~reply_ready
    /\ reply_ready' = TRUE
    /\ status_trace' = <<connection_status>>
    /\ ret' = Ret("server_reply", 0, 0, "", FALSE, <<>>, NoPrevious)
    /\ UNCHANGED <<connection_status, socket_waits_reply, last_heartbeat_timestamp,
                   last_reply_timestamp, heartbeat_socket, heartbeat_registered,
                   run_pc, heartbeat_sent_at, last_contact, last_rebuild>>
    /\ UNCHANGED <<now, beside_heartbeat>>

\* The sockets open after _init_sockets: with ok it has created one data
\* socket and one heartbeat socket; it closes none.
SocketsAfterInit(ok) ==
    /\ open_data_sockets' = open_data_sockets + (IF ok THEN 1 ELSE 0)
    /\ open_heartbeat_sockets' = open_heartbeat_sockets + (IF ok THEN 1 ELSE 0)

\* The sockets open after _reconnect: the data socket held is unregistered
\* and closed, the heartbeat socket held is not, then _init_sockets runs.
SocketsAfterReconnect(ok) ==
    /\ open_data_sockets' = (IF open_data_sockets > 0 THEN open_data_sockets - 1 ELSE 0)
                              + (IF ok THEN 1 ELSE 0)
    /\ open_heartbeat_sockets' = open_heartbeat_sockets + (IF ok THEN 1 ELSE 0)

\* The heartbeat sockets self.heartbeat_socket refers to.
HeldHeartbeatSockets == IF heartbeat_socket = "none" THEN 0 ELSE 1

\* The runtime finalizes a heartbeat socket the service no longer refers to,
\* which closes it, at a moment of its choosing after the reference is gone.
socket_finalized ==
    /\ open_heartbeat_sockets > HeldHeartbeatSockets
    /\ open_heartbeat_sockets' = open_heartbeat_sockets - 1
    /\ status_trace' = <<connection_status>>
    /\ ret' = Ret("socket_finalized", 0, 0, "", FALSE, <<>>, NoPrevious)
    /\ UNCHANGED <<connection_status, socket_waits_reply, last_heartbeat_timestamp,
                   last_reply_timestamp, heartbeat_socket, heartbeat_registered,
                   reply_ready, run_pc, heartbeat_sent_at, last_contact, last_rebuild>>
    /\ UNCHANGED <<now, beside_heartbeat, open_data_sockets>>

\* time.time() advances, up to MaxClock.
HeartbeatTick ==
    /\ now < MaxClock
    /\ now' = now + 1
    /\ status_trace' = <<connection_status>>
    /\ ret' = Ret("tick", 0, 0, "", FALSE, <<>>, NoPrevious)
    /\ UNCHANGED <<connection_status, socket_waits_reply, last_heartbeat_timestamp,
                   last_reply_timestamp, heartbeat_socket, heartbeat_registered,
                   reply_ready, run_pc, heartbeat_sent_at, last_contact, last_rebuild>>
    /\ UNCHANGED beside_heartbeat

\* ---------------------------------------- signal processing pipeline

RECURSIVE Factorial(_)
Factorial(n) == IF n <= 1 THEN 1 ELSE n * Factorial(n - 1)

\* Sample values are multiples of SampleScale, so that the mean of a window of
\* up to MaxFactor of them is a whole number.
SampleScale == Factorial(MaxFactor)

\* The i-th sample delivered to the pipeline since the last reset: one value
\* per channel, all different.
InputSample(i) == [c \in 1..NumChannels |-> SampleScale * ((i - 1) * NumChannels + c)]

\* The (n, num_channels) array of the n samples that follow the first delivered.
InputBlock(first, n) == [k \in 1..n |-> InputSample(first + k)]

\* The datalist of a processed-data event with the same samples: one array per channel.
InputDatalist(first, n) ==
    [c \in 1..NumChannels |-> [k \in 1..n |-> InputSample(first + k)[c]]]

\* numpy's .T of a 2-D array.
Transpose(m) ==
    IF Len(m) = 0 THEN <<>>
    ELSE [j \in 1..Len(m[1]) |-> [i \in 1..Len(m) |-> m[i][j]]]

\* The batching timeouts (ms) the buffers are built with: one and two ticks of the clock.
BatchTimeouts == {1000, 1000 * MaxTime}

\* A sample as the caller of DownsamplingBuffer.add_samples holds it: an array
\* of its own (np.mean's result, or a row of the caller's input) or a view of
\* the last row of sample_buffer (sample_buffer[-1]).
Owned(value) == [view |-> FALSE, value |-> value]
LastRowView(value) == [view |-> TRUE, value |-> value]

\* The values read from a held sample while sample_buffer is buf.
Deref(item, buf) == IF item.view THEN buf[Len(buf)] ELSE item.value

\* add_samples: a 2-D array whose first dimension equals num_channels is
\* transposed before its rows are taken as the samples.
SampleRows(samples, nch) ==
    IF Len(samples) = nch THEN Transpose(samples) ELSE samples

RECURSIVE SumColumn(_, _)
SumColumn(rows, c) ==
    IF rows = <<>> THEN 0 ELSE Head(rows)[c] + SumColumn(Tail(rows), c)

\* np.mean(sample_buffer, axis=0)
Mean(rows) == [c \in 1..Len(rows[1]) |-> SumColumn(rows, c) \div Len(rows)]

\* A downsampling that copies the last row for "decimate".
DownsampledCopy(buf, method) ==
    IF method = "decimate" THEN Owned(buf[Len(buf)]) ELSE Owned(Mean(buf))

\* The reduced sample add_samples appends to its results for a full window.
Downsampled(buf, method) ==
    IF method = "decimate" THEN LastRowView(buf[Len(buf)]) ELSE Owned(Mean(buf))

\* A fullness test that lets the window run one sample over.
WindowFullLate(position, factor) == position > factor

\* if self.buffer_position >= self.downsampling_factor
WindowFull(position, factor) == position >= factor

\* One turn of add_samples' loop; st holds sample_buffer, buffer_position,
\* samples_accumulated and the results so far.
AddSample(st, sample, factor, method) ==
    LET buf == [st.sample_buffer EXCEPT ![st.buffer_position + 1] = sample]
        pos == st.buffer_position + 1
    IN  IF WindowFull(pos, factor)
        THEN [sample_buffer |-> buf, buffer_position |-> 0,
              samples_accumulated |-> st.samples_accumulated + 1,
              results |-> Append(st.results, Downsampled(buf, method))]
        ELSE [sample_buffer |-> buf, buffer_position |-> pos,
              samples_accumulated |-> st.samples_accumulated + 1,
              results |-> st.results]

RECURSIVE AddSamples(_, _, _, _)
AddSamples(st, rows, factor, method) ==
    IF rows = <<>> THEN st
    ELSE AddSamples(AddSample(st, Head(rows), factor, method), Tail(rows), factor, method)

\* DownsamplingBuffer.add_samples(samples) on the buffer as it stands.
DownsamplingAdd(samples) ==
    AddSamples([sample_buffer |-> ds_sample_buffer, buffer_position |-> buffer_position,
                samples_accumulated |-> samples_accumulated, results |-> <<>>],
               SampleRows(samples, sp_num_channels),
               downsampling_factor, downsampling_method)

\* np.zeros((downsampling_factor, num_channels))
ZeroBuffer(factor, nch) == [i \in 1..factor |-> [c \in 1..nch |-> 0]]

\* _create_batch_dict: the values channel by channel; how tells which rule
\* emitted the batch.
CreateBatch(how, batch_data, nch) ==
    LET chunk_size == Len(batch_data)
    IN  [how |-> how, chunk_size |-> chunk_size, num_channels |-> nch,
         flattened_data |->
            [i \in 1..(nch * chunk_size) |->
                batch_data[((i - 1) % chunk_size) + 1][((i - 1) \div chunk_size) + 1]]]

\* The values of held samples while sample_buffer is buf.
Values(items, buf) == [i \in 1..Len(items) |-> Deref(items[i], buf)]

\* self.sample_buffer[self.batch_size:]
PendingAfterBatch(pending, size) == SubSeq(pending, size + 1, Len(pending))

\* One turn of BatchingBuffer.add_samples' loop; st holds sample_buffer,
\* last_batch_time and the batches so far; buf is the downsampling buffer the
\* views point into, t the time.
BatchSample(st, item, size, buf, nch, t) ==
    LET pending == Append(st.sample_buffer, item)
    IN  IF Len(pending) >= size
        THEN [sample_buffer |-> PendingAfterBatch(pending, size),
              last_batch_time |-> t,
              batches |-> Append(st.batches,
                                 CreateBatch("size", Values(SubSeq(pending, 1, size), buf), nch))]
        ELSE [sample_buffer |-> pending, last_batch_time |-> st.last_batch_time,
              batches |-> st.batches]

RECURSIVE BatchSamples(_, _, _, _, _, _)
BatchSamples(st, items, size, buf, nch, t) ==
    IF items = <<>> THEN st
    ELSE BatchSamples(BatchSample(st, Head(items), size, buf, nch, t),
                      Tail(items), size, buf, nch, t)

\* A timeout rule that leaves the pending samples in place.
PendingKept(pending) == pending

\* self.sample_buffer.clear()
PendingAfterTimeout(pending) == <<>>

\* The timeout rule at the end of BatchingBuffer.add_samples.
BatchTimeout(st, buf, nch, t, timeout_ms) ==
    IF st.sample_buffer # <<>> /\ (t - st.last_batch_time) * 1000 >= timeout_ms
    THEN [sample_buffer |-> PendingAfterTimeout(st.sample_buffer), last_batch_time |-> t,
          batches |-> Append(st.batches,
                             CreateBatch("timeout", Values(st.sample_buffer, buf), nch))]
    ELSE st

\* BatchingBuffer.add_samples(items) on the buffer as it stands.
BatchingAdd(items, buf) ==
    BatchTimeout(
        BatchSamples([sample_buffer |-> bb_sample_buffer, last_batch_time |-> last_batch_time,
                      batches |-> <<>>],
                     items, batch_size, buf, sp_num_channels, now),
        buf, sp_num_channels, now, batch_timeout_ms)

\* The downsampling methods and the samples already delivered.
Methods == {"average", "decimate"}
Delivered == Len(sp_inputs)

\* BatchingBuffer(num_channels, batch_size, batch_timeout_ms), used on its own.
NewBatchingBuffer(size, timeout_ms) ==
    /\ sp_num_channels = 0
    /\ sp_num_channels' = NumChannels
    /\ batch_size' = size
    /\ batch_timeout_ms' = timeout_ms
    /\ bb_sample_buffer' = <<>>
    /\ last_batch_time' = now
    /\ ret' = Ret("BatchingBuffer", 0, 0, "", FALSE, <<>>, NoPrevious)
    /\ UNCHANGED <<downsampling_factor, downsampling_method, ds_sample_buffer,
                   buffer_position, samples_accumulated,
                   sp_inputs, sp_reduced, sp_added, sp_batches>>
    /\ UNCHANGED <<now, beside_pipeline>>

\* BatchingBuffer.add_samples with the next n samples, arrays of their own.
bb_add_samples(n) ==
    LET items == [k \in 1..n |-> Owned(InputSample(Delivered + k))]
        st == BatchingAdd(items, ds_sample_buffer)
    IN  /\ sp_num_channels > 0
        /\ batch_size > 1
        /\ Delivered + n <= MaxInput
        /\ bb_sample_buffer' = st.sample_buffer
        /\ last_batch_time' = st.last_batch_time
        /\ sp_inputs' = sp_inputs \o InputBlock(Delivered, n)
        /\ sp_added' = sp_added \o Values(items, ds_sample_buffer)
        /\ sp_batches' = sp_batches \o st.batches
        /\ ret' = Ret("add_samples", 0, n, "", FALSE, st.batches, NoPrevious)
        /\ UNCHANGED <<sp_num_channels, downsampling_factor, downsampling_method,
                       ds_sample_buffer, buffer_position, samples_accumulated,
                       batch_size, batch_timeout_ms, sp_reduced>>
        /\ UNCHANGED <<now, beside_pipeline>>

\* DataProcessor configured by _load_config, then initialize(num_channels):
\* a downsampling buffer if the factor is above 1, a batching buffer if the
\* batch size is above 1.
initialize(factor, method, size, timeout_ms) ==
    /\ sp_num_channels = 0
    /\ sp_num_channels' = NumChannels
    /\ downsampling_factor' = factor
    /\ downsampling_method' = method
    /\ ds_sample_buffer' = IF factor > 1 THEN ZeroBuffer(factor, NumChannels) ELSE <<>>
    /\ buffer_position' = 0
    /\ samples_accumulated' = 0
    /\ batch_size' = size
    /\ batch_timeout_ms' = timeout_ms
    /\ bb_sample_buffer' = <<>>
    /\ last_batch_time' = now
    /\ ret' = Ret("initialize", 0, 0, "", FALSE, <<>>, NoPrevious)
    /\ UNCHANGED <<sp_inputs, sp_reduced, sp_added, sp_batches>>
    /\ UNCHANGED <<now, beside_pipeline>>

\* process_datalist(datalist) for a datalist of the next n samples.
process_datalist(n) ==
    LET datalist == InputDatalist(Delivered, n)
        transposed_data == Transpose(datalist)
        ds == IF downsampling_factor > 1
              THEN DownsamplingAdd(transposed_data)
              ELSE [sample_buffer |-> ds_sample_buffer, buffer_position |-> buffer_position,
                    samples_accumulated |-> samples_accumulated,
                    results |-> [k \in 1..n |-> Owned(transposed_data[k])]]
        downsampled_samples == ds.results
        bb == IF batch_size > 1
              THEN BatchingAdd(downsampled_samples, ds.sample_buffer)
              ELSE [sample_buffer |-> bb_sample_buffer, last_batch_time |-> last_batch_time,
                    batches |-> [k \in 1..Len(downsampled_samples) |->
                                    CreateBatch("single",
                                                <<Deref(downsampled_samples[k], ds.sample_buffer)>>,
                                                sp_num_channels)]]
    IN  /\ sp_num_channels > 0
        /\ Delivered + n <= MaxInput
        /\ ds_sample_buffer' = ds.sample_buffer
        /\ buffer_position' = ds.buffer_position
        /\ samples_accumulated' = ds.samples_accumulated
        /\ bb_sample_buffer' = bb.sample_buffer
        /\ last_batch_time' = bb.last_batch_time
        /\ sp_inputs' = sp_inputs \o InputBlock(Delivered, n)
        /\ sp_reduced' = sp_reduced \o downsampled_samples
        /\ sp_added' = sp_added \o Values(downsampled_samples, ds.sample_buffer)
        /\ sp_batches' = sp_batches \o bb.batches
        /\ ret' = Ret("process_datalist", 0, n, "", FALSE, bb.batches, NoPrevious)
        /\ UNCHANGED <<sp_num_channels, downsampling_factor, downsampling_method,
                       batch_size, batch_timeout_ms>>
        /\ UNCHANGED <<now, beside_pipeline>>

\* flush_pending, of DataProcessor and of its BatchingBuffer.
flush_pending ==
    LET flushed == batch_size > 1 /\ bb_sample_buffer # <<>>
        batches == IF flushed
                   THEN <<CreateBatch("flush", Values(bb_sample_buffer, ds_sample_buffer),
                                      sp_num_channels)>>
                   ELSE <<>>
    IN  /\ sp_num_channels > 0
        /\ bb_sample_buffer' = <<>>
        /\ last_batch_time' = IF flushed THEN now ELSE last_batch_time
        /\ sp_batches' = sp_batches \o batches
        /\ ret' = Ret("flush_pending", 0, 0, "", flushed, batches, NoPrevious)
        /\ UNCHANGED <<sp_num_channels, downsampling_factor, downsampling_method,
                       ds_sample_buffer, buffer_position, samples_accumulated,
                       batch_size, batch_timeout_ms, sp_inputs, sp_reduced, sp_added>>
        /\ UNCHANGED <<now, beside_pipeline>>

\* reset, of DataProcessor and of the buffers it holds.
reset ==
    /\ sp_num_channels > 0
    /\ ds_sample_buffer' = IF downsampling_factor > 1
                           THEN ZeroBuffer(downsampling_factor, sp_num_channels)
                           ELSE ds_sample_buffer
    /\ buffer_position' = 0
    /\ samples_accumulated' = 0
    /\ bb_sample_buffer' = <<>>
    /\ last_batch_time' = IF batch_size > 1 THEN now ELSE last_batch_time
    /\ sp_inputs' = <<>> /\ sp_reduced' = <<>> /\ sp_added' = <<>> /\ sp_batches' = <<>>
    /\ ret' = Ret("reset", 0, 0, "", FALSE, <<>>, NoPrevious)
    /\ UNCHANGED <<sp_num_channels, downsampling_factor, downsampling_method,
                   batch_size, batch_timeout_ms>>
    /\ UNCHANGED <<now, beside_pipeline>>

\* time.time() advances while the pipeline is left alone.
PipelineTick ==
    /\ now < MaxTime
    /\ now' = now + 1
    /\ ret' = Ret("tick", 0, 0, "", FALSE, <<>>, NoPrevious)
    /\ UNCHANGED <<sp_vars, beside_pipeline>>

\* --------------------------------------------------- OSC output queue

\* self._queue_max_size = 100
default_queue_max_size == 100

OverflowStrategies == {"drop_oldest", "drop_newest", "block"}

\* The events _on_status_update may be handed.
StatusUpdateTypes == {"auto_reinit_completed", "manual_reinit_completed", "other"}

\* An overflow handling that leaves the queue as it is whatever the strategy.
QueueKeptOnOverflow(queue, strategy) == queue

\* _handle_queue_overflow: the queue it leaves.
QueueAfterOverflow(queue, strategy) ==
    IF strategy = "drop_oldest" /\ queue # <<>> THEN Tail(queue) ELSE queue

\* _handle_queue_overflow: the messages it counts as dropped.
DroppedByOverflow(queue, strategy) ==
    IF strategy = "drop_oldest" THEN (IF queue # <<>> THEN 1 ELSE 0)
    ELSE IF strategy = "drop_newest" THEN 1
    ELSE 0

\* OSCService(config) with config.performance set, then start().
OSCService(max_size, strategy) ==
    /\ ~osc_running
    /\ osc_running' = TRUE
    /\ data_queue' = <<>>
    /\ queue_max_size' = max_size
    /\ queue_overflow_strategy' = strategy
    /\ queue_overflows' = 0
    /\ messages_dropped' = 0
    /\ ret' = Ret("OSCService", 0, 0, "", FALSE, <<>>, NoPrevious)
    /\ UNCHANGED <<osc_received, osc_sent>>
    /\ UNCHANGED <<now, beside_osc>>

\* _on_data_received with a datalist that is not empty: under _queue_lock,
\* overflow handling if the queue is full, then the append.
_on_data_received ==
    LET item == osc_received + 1
        full == Len(data_queue) >= queue_max_size
    IN  /\ osc_running
        /\ osc_received < MaxReceived
        /\ osc_received' = item
        /\ data_queue' =
              Append(IF full THEN QueueAfterOverflow(data_queue, queue_overflow_strategy)
                     ELSE data_queue,
                     item)
        /\ queue_overflows' = IF full THEN queue_overflows + 1 ELSE queue_overflows
        /\ messages_dropped' =
              IF full THEN messages_dropped + DroppedByOverflow(data_queue, queue_overflow_strategy)
              ELSE messages_dropped
        /\ ret' = Ret("_on_data_received", 0, item, "", full, <<>>, NoPrevious)
        /\ UNCHANGED <<osc_running, queue_max_size, queue_overflow_strategy, osc_sent>>
        /\ UNCHANGED <<now, beside_osc>>

\* One turn of the sender loop _run: under _queue_lock, the head of the queue
\* is taken if there is one.
osc_run ==
    /\ osc_running
    /\ IF data_queue # <<>>
       THEN /\ data_queue' = Tail(data_queue)
            /\ osc_sent' = Append(osc_sent, Head(data_queue))
            /\ ret' = Ret("_run", 0, Head(data_queue), "", TRUE, <<>>, NoPrevious)
       ELSE /\ UNCHANGED <<data_queue, osc_sent>>
            /\ ret' = Ret("_run", 0, 0, "", FALSE, <<>>, NoPrevious)
    /\ UNCHANGED <<osc_running, queue_max_size, queue_overflow_strategy,
                   queue_overflows, messages_dropped, osc_received>>
    /\ UNCHANGED <<now, beside_osc>>

\* _on_status_update: the drop counter is reset when a reinit completed (the
\* rate and delay statistics it also resets are not part of this state).
_on_status_update(type) ==
    /\ osc_running
    /\ messages_dropped' =
          IF type \in {"auto_reinit_completed", "manual_reinit_completed"} THEN 0
          ELSE messages_dropped
    /\ ret' = Ret("_on_status_update", 0, 0, type, FALSE, <<>>, NoPrevious)
    /\ UNCHANGED <<osc_running, data_queue, queue_max_size, queue_overflow_strategy,
                   queue_overflows, osc_received, osc_sent>>
    /\ UNCHANGED <<now, beside_osc>>

\* ------------------------------------------- OSC output queue: mutex

\* The reads and writes a thread makes of these fields, each marked with
\* whether the thread holds _queue_lock while it makes them.
Accesses(thread, fields) ==
    {[by |-> thread, field |-> f, locked |-> queue_lock = thread] : f \in fields}

\* What a step that only moves the mutex leaves alone.
beside_lock == <<now, osc_vars, sender_vars, wiring_vars, beside_osc>>

\* _on_data_received reaches `with self._queue_lock` and enters it.
enqueue_acquire ==
    /\ osc_running
    /\ osc_received < MaxReceived
    /\ enqueue_pc = "idle"
    /\ queue_lock = "none"
    /\ queue_lock' = "connection"
    /\ enqueue_pc' = "locked"
    /\ queue_accesses' = {}
    /\ ret' = Ret("enqueue_acquire", 0, 0, "", FALSE, <<>>, NoPrevious)
    /\ UNCHANGED <<sender_pc, beside_lock>>

\* The body of the with statement of _on_data_received, and its exit.
enqueue_locked ==
    /\ enqueue_pc = "locked"
    /\ _on_data_received
    /\ queue_accesses' =
          Accesses("connection",
                   IF Len(data_queue) >= queue_max_size
                   THEN {"data_queue", "queue_overflows", "messages_dropped"}
                   ELSE {"data_queue"})
    /\ queue_lock' = "none"
    /\ enqueue_pc' = "idle"
    /\ UNCHANGED <<sender_pc, sender_vars, wiring_vars>>

\* The sender loop reaches `with self._queue_lock` and enters it.
sender_acquire ==
    /\ osc_running
    /\ sender_pc = "idle"
    /\ queue_lock = "none"
    /\ queue_lock' = "sender"
    /\ sender_pc' = "locked"
    /\ queue_accesses' = {}
    /\ ret' = Ret("sender_acquire", 0, 0, "", FALSE, <<>>, NoPrevious)
    /\ UNCHANGED <<enqueue_pc, beside_lock>>

\* The body of the with statement of _run, and its exit: with an item the
\* loop goes on to _send_data.
sender_locked ==
    /\ sender_pc = "locked"
    /\ osc_run
    /\ queue_accesses' = Accesses("sender", {"data_queue"})
    /\ queue_lock' = "none"
    /\ sender_pc' = IF data_queue # <<>> THEN "send" ELSE "idle"
    /\ UNCHANGED <<enqueue_pc, sender_vars, wiring_vars>>

\* _send_data after the transmission: the statistics it publishes as DATA_SENT
\* read len(self._data_queue), _queue_overflows and _messages_dropped.
_send_data ==
    /\ sender_pc = "send"
    /\ sender_pc' = "idle"
    /\ queue_accesses' =
          Accesses("sender", {"data_queue", "queue_overflows", "messages_dropped"})
    /\ ret' = Ret("_send_data", 0, 0, "", FALSE, <<>>, NoPrevious)
    /\ UNCHANGED <<queue_lock, enqueue_pc, beside_lock>>

\* _on_status_update for a reinit that completed, on the thread that
\* published it: _messages_dropped is set to 0 and published with
\* _queue_overflows.
reinit_on_status_update(type) ==
    /\ type # "other"
    /\ _on_status_update(type)
    /\ queue_accesses' = Accesses("reinit", {"queue_overflows", "messages_dropped"})
    /\ UNCHANGED <<queue_lock, sender_pc, enqueue_pc, sender_vars, wiring_vars>>

\* ------------------------------------- OSC sender: downsampling window

\* SignalProcessor.process_samples for the one sample of a delivery item: the
\* window after it, empty again once it held SenderFactor samples.
WindowAfter(item) ==
    IF Len(sender_window) + 1 >= SenderFactor THEN <<>> ELSE Append(sender_window, item)

\* The windows process_samples reduced and _send_individual_sample_mode sent.
EmittedAfter(item) ==
    IF Len(sender_window) + 1 >= SenderFactor
    THEN Append(windows_emitted, Append(sender_window, item))
    ELSE windows_emitted

\* The enqueue handler for a processed-data event of one sample per channel,
\* popped in the current epoch of the manager.
sender_on_data_received ==
    /\ _on_data_received
    /\ epoch_of' = Append(epoch_of, epoch)
    /\ UNCHANGED <<epoch, sender_window, windows_emitted>>

\* One turn of the sender loop: the item dequeued goes through _send_data,
\* _send_combined_data and _send_individual_sample_mode.
sender_run ==
    /\ osc_run
    /\ IF data_queue # <<>>
       THEN /\ sender_window' = WindowAfter(Head(data_queue))
            /\ windows_emitted' = EmittedAfter(Head(data_queue))
       ELSE UNCHANGED <<sender_window, windows_emitted>>
    /\ UNCHANGED <<epoch, epoch_of>>

\* A reinit of the manager and the reinit-completed status update it
\* publishes: _on_status_update resets the statistics, the drop counter and
\* the signal processor.
sender_on_reinit_completed(type) ==
    /\ epoch < MaxEpoch
    /\ type # "other"
    /\ _on_status_update(type)
    /\ epoch' = epoch + 1
    /\ sender_window' = <<>>
    /\ UNCHANGED <<epoch_of, windows_emitted>>

\* ------------------------------------------------------------ event bus

\* The threads that call the bus: the ZMQ service's loop and the interface's.
Threads == {"zmq", "ui"}

\* The callbacks subscribed to the event type; the first raises an Exception
\* whenever it is called, at the end of its body.
Handlers == {"h1", "h2"}
Raises(h) == h = "h1"

\* The event types events are published with.
EventTypes == {"service_started", "status_update"}

\* Event(event_type, data, source), as publish_event builds it: the k-th
\* publish carries the data k and the publishing thread as its source.
NewEvent(event_type, data, source) ==
    [event_type |-> event_type, data |-> data, source |-> source]

\* A call in progress: op is "publish", "subscribe", "unsubscribe" or
\* "handler"; pc its position; type the event type and h the callback it is
\* about; id the publish it belongs to; subscribers and i the local list and
\* the loop index of publish.
Frame(op, pc, type, h, id, subs, i) ==
    [op |-> op, pc |-> pc, type |-> type, h |-> h, id |-> id, subscribers |-> subs, i |-> i]

Top(t) == stack[t][Len(stack[t])]
Push(t, frame) == [stack EXCEPT ![t] = Append(@, frame)]
Pop(t) == [stack EXCEPT ![t] = SubSeq(@, 1, Len(@) - 1)]
ReplaceTop(stk, t, frame) == [stk EXCEPT ![t] = [@ EXCEPT ![Len(@)] = frame]]

\* RLock: free, or held by the thread that asks.
CanAcquire(t) == bus_lock.owner = "none" \/ bus_lock.owner = t
Acquired(t) == [owner |-> t, count |-> bus_lock.count + 1]
Released ==
    IF bus_lock.count = 1 THEN [owner |-> "none", count |-> 0]
    ELSE [bus_lock EXCEPT !.count = @ - 1]

\* list.remove(callback): the first occurrence goes, ValueError is swallowed.
RECURSIVE Remove(_, _)
Remove(list, h) ==
    IF list = <<>> THEN <<>>
    ELSE IF Head(list) = h THEN Tail(list)
    ELSE <<Head(list)>> \o Remove(Tail(list), h)

\* The record of a publish that has just been called.
NewPublish(event) ==
    [event |-> event, snapshot |-> <<>>, copied |-> FALSE, at |-> 0, invoked |-> <<>>,
     delivered |-> <<>>, result |-> "running"]

\* The frame a call of op starts with, waiting for the lock.
Entered(op, type, h) ==
    IF op = "publish" THEN Frame(op, "acquire", type, "", Len(publishes) + 1, <<>>, 0)
    ELSE Frame(op, "acquire", type, h, 0, <<>>, 0)

\* The bounds of the run let this call start.
MayCall(op) ==
    IF op = "publish" THEN Len(publishes) < MaxPublishes ELSE bus_calls < MaxBusCalls

BusOps == {"publish", "subscribe", "unsubscribe"}

\* A thread that is not in a call calls publish, subscribe or unsubscribe.
call_bus(t, op, type, h) ==
    /\ stack[t] = <<>>
    /\ MayCall(op)
    /\ stack' = Push(t, Entered(op, type, h))
    /\ publishes' = IF op = "publish"
                    THEN Append(publishes, NewPublish(NewEvent(type, Len(publishes) + 1, t)))
                    ELSE publishes
    /\ bus_calls' = IF op = "publish" THEN bus_calls ELSE bus_calls + 1
    /\ UNCHANGED <<subscribers, bus_lock, bus_log>>
    /\ UNCHANGED beside_bus

\* A callback calls back into the bus, once, before it ends.
handler_calls_bus(t, op, type, h) ==
    /\ stack[t] # <<>>
    /\ Top(t).op = "handler"
    /\ Top(t).pc = "body"
    /\ MayCall(op)
    /\ stack' = [ReplaceTop(stack, t, [Top(t) EXCEPT !.pc = "end"])
                    EXCEPT ![t] = Append(@, Entered(op, type, h))]
    /\ publishes' = IF op = "publish"
                    THEN Append(publishes, NewPublish(NewEvent(type, Len(publishes) + 1, t)))
                    ELSE publishes
    /\ bus_calls' = IF op = "publish" THEN bus_calls ELSE bus_calls + 1
    /\ UNCHANGED <<subscribers, bus_lock, bus_log>>
    /\ UNCHANGED beside_bus

\* with self._lock: the thread goes on once the lock is its own.
acquire_lock(t) ==
    /\ stack[t] # <<>>
    /\ Top(t).pc = "acquire"
    /\ CanAcquire(t)
    /\ bus_lock' = Acquired(t)
    /\ stack' = ReplaceTop(stack, t, [Top(t) EXCEPT !.pc = "locked"])
    /\ UNCHANGED <<subscribers, publishes, bus_calls, bus_log>>
    /\ UNCHANGED beside_bus

\* subscribe, inside the lock: the callback is appended; the lock is released.
subscribe(t) ==
    /\ stack[t] # <<>>
    /\ Top(t).op = "subscribe"
    /\ Top(t).pc = "locked"
    /\ subscribers' = [subscribers EXCEPT ![Top(t).type] = Append(@, Top(t).h)]
    /\ bus_lock' = Released
    /\ stack' = Pop(t)
    /\ bus_log' = Append(bus_log, [op |-> "subscribe", type |-> Top(t).type, h |-> Top(t).h])
    /\ UNCHANGED <<publishes, bus_calls>>
    /\ UNCHANGED beside_bus

\* unsubscribe, inside the lock: the first occurrence of the callback is
\* removed, if there is one; the lock is released.
unsubscribe(t) ==
    /\ stack[t] # <<>>
    /\ Top(t).op = "unsubscribe"
    /\ Top(t).pc = "locked"
    /\ subscribers' = [subscribers EXCEPT ![Top(t).type] = Remove(@, Top(t).h)]
    /\ bus_lock' = Released
    /\ stack' = Pop(t)
    /\ bus_log' = Append(bus_log, [op |-> "unsubscribe", type |-> Top(t).type, h |-> Top(t).h])
    /\ UNCHANGED <<publishes, bus_calls>>
    /\ UNCHANGED beside_bus

\* A lookup that takes the callbacks of every event type.
SubscribersOfAnyType(event_type) ==
    LET RECURSIVE All(_)
        All(types) == IF types = {} THEN <<>>
                      ELSE LET type == CHOOSE x \in types : TRUE
                           IN  subscribers[type] \o All(types \ {type})
    IN  All(EventTypes)

\* self._subscribers[event.event_type], or no callbacks without the key.
SubscribersOf(event_type) == subscribers[event_type]

\* publish, inside the lock: the list is copied; the lock is released.
publish_copy(t) ==
    /\ stack[t] # <<>>
    /\ Top(t).op = "publish"
    /\ Top(t).pc = "locked"
    /\ bus_lock' = Released
    /\ stack' = ReplaceTop(stack, t,
                           [Top(t) EXCEPT !.pc = "call",
                                          !.subscribers = SubscribersOf(publishes[Top(t).id].event.event_type),
                                          !.i = 1])
    /\ publishes' = [publishes EXCEPT ![Top(t).id].snapshot = subscribers[Top(t).type],
                                      ![Top(t).id].copied = TRUE,
                                      ![Top(t).id].at = Len(bus_log)]
    /\ UNCHANGED <<subscribers, bus_calls, bus_log>>
    /\ UNCHANGED beside_bus

\* A loop over the list of the bus itself.
IteratedLive(frame) == subscribers[frame.type]

\* for callback in subscribers: the list the loop of publish runs over.
Iterated(frame) == frame.subscribers

\* publish, outside the lock: the next callback is called, or publish returns.
publish_call(t) ==
    /\ stack[t] # <<>>
    /\ Top(t).op = "publish"
    /\ Top(t).pc = "call"
    /\ IF Top(t).i <= Len(Iterated(Top(t)))
       THEN LET callback == Iterated(Top(t))[Top(t).i]
            IN  /\ stack' = Push(t, Frame("handler", "body", Top(t).type, callback,
                                            Top(t).id, <<>>, 0))
                /\ publishes' = [publishes EXCEPT
                                    ![Top(t).id].invoked = Append(@, callback),
                                    ![Top(t).id].delivered =
                                        Append(@, publishes[Top(t).id].event)]
       ELSE /\ stack' = Pop(t)
            /\ publishes' = [publishes EXCEPT ![Top(t).id].result = "returned"]
    /\ UNCHANGED <<subscribers, bus_lock, bus_calls, bus_log>>
    /\ UNCHANGED beside_bus

\* A loop that a raising callback ends.
NextCallbackStopping(i, n, raised) == IF raised THEN n + 1 ELSE i + 1

\* try: callback(event) except Exception: print(...): the loop goes on with
\* the next callback whether the callback returned or raised.
NextCallback(i, n, raised) == i + 1

\* A callback ends, returning or raising an Exception, back in publish's loop.
handler_returns(t) ==
    /\ stack[t] # <<>>
    /\ Top(t).op = "handler"
    /\ LET caller == Pop(t)[t][Len(stack[t]) - 1]
           n == Len(Iterated(caller))
       IN  stack' = ReplaceTop(Pop(t), t,
                               [caller EXCEPT !.i = NextCallback(caller.i, n, Raises(Top(t).h))])
    /\ UNCHANGED <<subscribers, bus_lock, publishes, bus_calls, bus_log>>
    /\ UNCHANGED beside_bus

\* ---------------------------------------------------------- application

\* The flags of the application and of its components, as shutdown() finds them.
AppFlags(requested, interface, osc, zmq) ==
    [shutdown_requested |-> requested, interface_running |-> interface,
     osc_running |-> osc, zmq_running |-> zmq, stop_calls |-> stop_calls]

\* shutdown(): nothing if _shutdown_requested is set already; otherwise the
\* flag is set and the interface, the OSC service and the ZMQ service are
\* stopped, in this order.
shutdown(st) ==
    IF st.shutdown_requested THEN st
    ELSE [shutdown_requested |-> TRUE, interface_running |-> FALSE,
          osc_running |-> FALSE, zmq_running |-> FALSE,
          stop_calls |-> st.stop_calls \o <<"interface", "osc", "zmq">>]

\* The flags become those of st.
SetFlags(st) ==
    /\ shutdown_requested' = st.shutdown_requested
    /\ interface_running' = st.interface_running
    /\ osc_running' = st.osc_running
    /\ zmq_running' = st.zmq_running
    /\ stop_calls' = st.stop_calls

\* start(): the ZMQ service, the OSC service and the interface are started; if
\* one of them raises, after the ZMQ service was started, shutdown() is called.
start(ok) ==
    /\ app_pc = "new"
    /\ app_pc' = "run"
    /\ SetFlags(IF ok THEN AppFlags(shutdown_requested, TRUE, TRUE, TRUE)
                ELSE shutdown(AppFlags(shutdown_requested, FALSE, FALSE, TRUE)))
    /\ ret' = Ret("start", 0, 0, IF ok THEN "" ELSE "Error starting services", FALSE,
                  <<>>, NoPrevious)
    /\ UNCHANGED signalled
    /\ UNCHANGED beside_app

\* The handler of SIGINT and SIGTERM installed by _setup_signal_handlers.
signal_handler ==
    /\ app_pc # "exited"
    /\ shutdown_requested' = TRUE
    /\ signalled' = TRUE
    /\ ret' = Ret("signal_handler", 0, 0, "", FALSE, <<>>, NoPrevious)
    /\ UNCHANGED <<app_pc, osc_running, zmq_running, interface_running, stop_calls>>
    /\ UNCHANGED beside_app

\* The callback subscribed to SHUTDOWN_REQUESTED.
_on_shutdown_requested ==
    /\ app_pc # "exited"
    /\ shutdown_requested' = TRUE
    /\ signalled' = TRUE
    /\ ret' = Ret("_on_shutdown_requested", 0, 0, "", FALSE, <<>>, NoPrevious)
    /\ UNCHANGED <<app_pc, osc_running, zmq_running, interface_running, stop_calls>>
    /\ UNCHANGED beside_app

\* run(): the loop sleeps until _shutdown_requested is set; then, in the
\* finally clause, shutdown() is called and run returns.
run ==
    /\ app_pc = "run"
    /\ shutdown_requested
    /\ app_pc' = "exited"
    /\ SetFlags(shutdown(AppFlags(shutdown_requested, interface_running,
                                  osc_running, zmq_running)))
    /\ ret' = Ret("run", 0, 0, "", FALSE, <<>>, NoPrevious)
    /\ UNCHANGED signalled
    /\ UNCHANGED beside_app

\* ------------------------------------------------------ specifications

\* ------------------------------------------- connection thread: the loop

\* What a turn of the loop leaves alone, beside the manager, the frames'
\* numbers, the sockets and the running flags.
beside_run == <<hb_vars, sp_vars, osc_vars, bus_vars, in_push, timeouts_fired,
                sender_vars, lock_vars, chain_vars, view_vars, conn_vars>>

\* The errors a turn of the loop can end with: json or reshape errors while a
\* frame is decoded, an exception out of a timeout handler or a callback, a
\* ZMQError out of poller.poll, and a ZMQError out of recv_multipart.
LoopErrors == {"decode_error", "handler_error", "poll_error", "recv_error"}

\* Whether the loop goes on after a turn that ended with this error: the
\* except clause around recv_multipart breaks out of the loop, the one around
\* the whole turn prints, sleeps and goes on.
LoopContinues(error) == error # "recv_error"

\* start(): the running flag is set and the thread started; _run begins with
\* _init_sockets, which here succeeds.
zmq_service_start ==
    /\ service_loop = "not_started"
    /\ ~zmq_running
    /\ zmq_running' = TRUE
    /\ service_loop' = "looping"
    /\ last_iteration' = "started"
    /\ SocketsAfterInit(TRUE)
    /\ UNCHANGED <<app_pc, shutdown_requested, interface_running, stop_calls, signalled>>
    /\ UNCHANGED <<now, ret, data_vars, msg_vars, beside_run>>

\* stop(): the running flag is cleared.
zmq_service_stop ==
    /\ zmq_running
    /\ zmq_running' = FALSE
    /\ UNCHANGED <<app_pc, shutdown_requested, interface_running, stop_calls, signalled>>
    /\ UNCHANGED <<now, ret, data_vars, msg_vars, sock_vars, loop_vars, beside_run>>

\* _cleanup: the sockets are unregistered and closed.
SocketsAfterCleanup ==
    /\ open_data_sockets' = 0
    /\ open_heartbeat_sockets' = 0

\* A turn of the loop that receives a frame and handles it.
run_handles_message(header_num, type) ==
    /\ service_loop = "looping"
    /\ zmq_running
    /\ _handle_data_message(header_num, type, 0)
    /\ last_iteration' = "message"
    /\ UNCHANGED <<service_loop, app_vars, sock_vars, beside_run>>

\* A turn of the loop that ends with an error.
run_fails(error) ==
    /\ service_loop = "looping"
    /\ zmq_running
    /\ last_iteration' = error
    /\ IF LoopContinues(error)
       THEN UNCHANGED <<service_loop, sock_vars>>
       ELSE service_loop' = "cleaned_up" /\ SocketsAfterCleanup
    /\ UNCHANGED <<now, ret, data_vars, msg_vars, app_vars, beside_run>>

\* The loop finds the running flag cleared: it ends and _cleanup runs.
run_returns ==
    /\ service_loop = "looping"
    /\ ~zmq_running
    /\ service_loop' = "cleaned_up"
    /\ last_iteration' = "stopped"
    /\ SocketsAfterCleanup
    /\ UNCHANGED <<now, ret, data_vars, msg_vars, app_vars, beside_run>>

\* ------------------------------------------- OSC sender: the connection

\* What _send_data does with a dequeued item: nothing when the connection is
\* not active, else it sends, and an exception while sending is caught.
SendOutcome(active, raises) ==
    IF ~active THEN "discarded"
    ELSE IF raises THEN "failed"
    ELSE "sent"

\* _connection_active after _send_data: cleared by the except clause.
ActiveAfter(active, raises) == active /\ ~raises

\* OSCService(config) and start(): the client is created and the connection
\* marked active.
osc_service_start(max_size, strategy) ==
    /\ OSCService(max_size, strategy)
    /\ connection_active' = TRUE
    /\ UNCHANGED <<send_log, sender_vars, lock_vars, chain_vars, view_vars, loop_vars>>

\* One turn of the sender loop: the item dequeued, if there is one, goes to
\* _send_data, where the client raises or not.
run_send_data(raises) ==
    /\ osc_run
    /\ IF data_queue # <<>>
       THEN /\ send_log' = Append(send_log,
                                  [item |-> Head(data_queue),
                                   outcome |-> SendOutcome(connection_active, raises)])
            /\ connection_active' = ActiveAfter(connection_active, raises)
       ELSE /\ ~raises
            /\ UNCHANGED <<send_log, connection_active>>
    /\ UNCHANGED <<sender_vars, lock_vars, chain_vars, view_vars, loop_vars>>

\* ------------------------------------------- processed data: shared arrays

\* Nothing has been sent.
NoTransmission == [published |-> <<>>, sent |-> <<>>]

\* The datalist of a processed-data event as _on_data_received appends it to
\* the queue: pop_data returned, for each channel, the slice
\* data[new_tail_index:tail_index] of the channel's array, which shares the
\* array's memory. first and last are the bounds of the slices, live tells
\* that the arrays are still those of the manager, and arrays holds them once
\* they are not.
SharedDatalist(ev, chs) ==
    [published |-> ev.datalist,
     first |-> [i \in 1..Len(chs) |-> chs[i].tail_index],
     last |-> [i \in 1..Len(chs) |-> (chs[i].tail_index + ev.num_samples) % buffer_size],
     live |-> TRUE,
     arrays |-> <<>>]

\* np.array(datalist) in _send_combined_data: the values the slices of a
\* queued datalist hold when the sender reads them.
ValuesOf(item) ==
    [i \in 1..Len(item.first) |->
        Slice(IF item.live THEN channels[i].data ELSE item.arrays[i],
              item.first[i], item.last[i])]

\* reinit_for_new_setup replaces the manager's arrays by new ones: the queued
\* slices keep the old arrays, which nothing writes any more.
Detached(item) ==
    IF item.live
    THEN [item EXCEPT !.live = FALSE,
                      !.arrays = [i \in 1..Len(channels) |-> channels[i].data]]
    ELSE item

\* What a datalist on its way leaves alone, beside the manager.
beside_views == <<hb_vars, sp_vars, osc_vars, bus_vars, app_vars, timeouts_fired,
                  msg_vars, sock_vars, sender_vars, lock_vars, in_push, chain_vars,
                  loop_vars, conn_vars>>

\* A frame of one sample on the connection thread: _process_data_frame, and
\* for the processed-data event it publishes _on_data_received, which appends
\* the event's datalist to the queue.
frame_received(channel_num) ==
    /\ Len(view_queue) < MaxQueued
    /\ _process_data_frame(channel_num, 1, 1)
    /\ view_queue' =
          IF published' # <<>> /\ published'[Len(published')].type = "DATA_PROCESSED"
          THEN Append(view_queue,
                      SharedDatalist(published'[Len(published')], channels'))
          ELSE view_queue
    /\ UNCHANGED <<transmitted, beside_views>>

\* A manual reinit between two frames.
reinit_between_frames ==
    /\ manual_reinit_data_manager
    /\ view_queue' = [i \in 1..Len(view_queue) |-> Detached(view_queue[i])]
    /\ UNCHANGED <<transmitted, beside_views>>

\* One turn of the sender loop with an item in the queue: the item is
\* dequeued and _send_combined_data builds the array it sends.
send_combined_data ==
    /\ view_queue # <<>>
    /\ view_queue' = Tail(view_queue)
    /\ transmitted' = [published |-> Head(view_queue).published,
                       sent |-> ValuesOf(Head(view_queue))]
    /\ UNCHANGED <<now, ret, data_vars, beside_views>>

\* ------------------------------------------- manual reinit: the event chain

\* Event(event_type, data, source) of a status update or of a data-sent
\* event: kind is data["type"].
ChainEvent(type, kind, source) == [type |-> type, kind |-> kind, source |-> source]

\* The callbacks EventBus.publish calls for an event type, in the order of
\* their subscription: ZMQService subscribes in its constructor, the
\* interface and the OSC service in start().
CallbacksOf(type) ==
    IF type = "STATUS_UPDATE"
    THEN <<"ZMQService", "CLIInterface">> \o (IF osc_running THEN <<"OSCService">> ELSE <<>>)
    ELSE <<"ZMQService", "CLIInterface">>

\* A publish call that has copied its subscribers and called none yet.
Call(ev) == [event |-> ev, todo |-> CallbacksOf(ev.type)]

\* The entries of the history.
PublishedEntry(ev, nested) == [op |-> "publish", event |-> ev, nested |-> nested]
ReinitEntry(ev) == [op |-> "reinit", event |-> ev, nested |-> TRUE]

\* A connection service that also reinitializes on the interface's request.
ZMQReinitsOnRequest(ev) ==
    /\ ev.source # "ZMQService"
    /\ ev.kind \in {"execute_manual_reinit", "manual_reinit_request"}

\* ZMQService._on_status_update: whether it calls manual_reinit_data_manager.
ZMQReinits(ev) ==
    /\ ev.source # "ZMQService"
    /\ ev.kind = "execute_manual_reinit"

\* CLIInterface._on_status_update: whether it publishes execute_manual_reinit.
CLIForwards(ev) ==
    /\ ev.source # "CLIInterface"
    /\ ev.kind = "manual_reinit_request"

\* OSCService._on_status_update: whether it resets its statistics and
\* publishes a data-sent event.
OSCResets(ev) == ev.kind \in {"auto_reinit_completed", "manual_reinit_completed"}

\* What the steps of a chain leave alone, beside the manager and the queue.
beside_chain == <<hb_vars, sp_vars, bus_vars, app_vars, timeouts_fired, msg_vars,
                  sock_vars, sender_vars, lock_vars, view_vars, loop_vars, conn_vars>>

\* The publish calls made from outside the callbacks so far.
Commands == Cardinality({i \in 1..Len(chain_log) :
                            chain_log[i].op = "publish" /\ ~chain_log[i].nested})

\* publish_event called by a component or by the dashboard, no publish being
\* in progress: the subscribers are copied.
publish_event(kind, source) ==
    /\ dispatch = <<>>
    /\ Commands < MaxCommands
    /\ dispatch' = <<Call(ChainEvent("STATUS_UPDATE", kind, source))>>
    /\ chain_log' = Append(chain_log,
                           PublishedEntry(ChainEvent("STATUS_UPDATE", kind, source), FALSE))
    /\ UNCHANGED <<keys_pressed, now, ret, data_vars, osc_vars, in_push, beside_chain>>

\* _handle_manual_reinit_request, called by the keyboard thread when it reads
\* Ctrl+F: manual_reinit_request is published with the interface as source.
_handle_manual_reinit_request ==
    /\ dispatch = <<>>
    /\ keys_pressed < MaxKeys
    /\ keys_pressed' = keys_pressed + 1
    /\ dispatch' = <<Call(ChainEvent("STATUS_UPDATE", "manual_reinit_request", "CLIInterface"))>>
    /\ chain_log' = Append(chain_log,
                           PublishedEntry(ChainEvent("STATUS_UPDATE", "manual_reinit_request",
                                                     "CLIInterface"), FALSE))
    /\ UNCHANGED <<now, ret, data_vars, osc_vars, in_push, beside_chain>>

\* One step of the innermost publish call: it calls its next callback, which
\* runs to its own publish_event call or to its end, or it returns.
\* ZMQService._on_status_update runs manual_reinit_data_manager, which
\* publishes manual_reinit_completed; CLIInterface._on_status_update forwards
\* a request as execute_manual_reinit; OSCService._on_status_update resets
\* and publishes a data-sent event; _on_data_sent and every other case publish
\* nothing.
deliver ==
    /\ dispatch # <<>>
    /\ LET innermost == dispatch[Len(dispatch)]
           ev == innermost.event
           returned == [dispatch EXCEPT ![Len(dispatch)].todo = Tail(@)]
           completed == ChainEvent("STATUS_UPDATE", "manual_reinit_completed", "ZMQService")
           execute == ChainEvent("STATUS_UPDATE", "execute_manual_reinit", "CLIInterface")
           sent == ChainEvent("DATA_SENT", "", "OSCService")
       IN  IF innermost.todo = <<>>
           THEN /\ dispatch' = SubSeq(dispatch, 1, Len(dispatch) - 1)
                /\ UNCHANGED <<chain_log, now, ret, data_vars, osc_vars, in_push, beside_chain>>
           ELSE CASE Head(innermost.todo) = "ZMQService" /\ ev.type = "STATUS_UPDATE"
                        /\ ZMQReinits(ev) ->
                       /\ zmq_on_status_update
                       /\ dispatch' = Append(returned, Call(completed))
                       /\ chain_log' = chain_log \o
                                       <<ReinitEntry(ev), PublishedEntry(completed, TRUE)>>
                       /\ UNCHANGED <<osc_vars, beside_chain>>
                  [] Head(innermost.todo) = "CLIInterface" /\ ev.type = "STATUS_UPDATE"
                        /\ CLIForwards(ev) ->
                       /\ dispatch' = Append(returned, Call(execute))
                       /\ chain_log' = Append(chain_log, PublishedEntry(execute, TRUE))
                       /\ UNCHANGED <<now, ret, data_vars, osc_vars, in_push, beside_chain>>
                  [] Head(innermost.todo) = "OSCService" /\ ev.type = "STATUS_UPDATE"
                        /\ OSCResets(ev) ->
                       /\ _on_status_update(ev.kind)
                       /\ dispatch' = Append(returned, Call(sent))
                       /\ chain_log' = Append(chain_log, PublishedEntry(sent, TRUE))
                       /\ UNCHANGED <<sender_vars, lock_vars, view_vars, loop_vars, conn_vars>>
                  [] OTHER ->
                       /\ dispatch' = returned
                       /\ UNCHANGED <<chain_log, now, ret, data_vars, osc_vars, in_push,
                                      beside_chain>>
    /\ UNCHANGED keys_pressed

\* DataManager() followed by init_empty_buffer(1, ...), as ZMQService.__init__
\* does when it is given no configuration.
Init ==
    /\ channels = init_empty_buffer(1)
    /\ lowest_tail_index = 0
    /\ channel_discovery_mode = TRUE
    /\ discovered_channels = {}
    /\ max_channel_id = 0 - 1
    /\ now = 0
    /\ last_data_time = 0
    /\ timeout_seconds = MaxTime
    /\ auto_reinit_enabled = FALSE
    /\ timeout_triggered = FALSE
    /\ ret = Ret("init", 0, 0, "", FALSE, <<>>, NoPrevious)
    /\ published = <<>>
    /\ observed = <<>>
    /\ fired = FALSE
    /\ last_push = 0 - 1
    /\ reinit_reports = <<>>
    /\ connection_status = "NOT_CONNECTED"
    /\ socket_waits_reply = FALSE
    /\ last_heartbeat_timestamp = Epoch
    /\ last_reply_timestamp = 0
    /\ heartbeat_socket = "none"
    /\ heartbeat_registered = FALSE
    /\ reply_ready = FALSE
    /\ run_pc = "start"
    /\ status_trace = <<"NOT_CONNECTED">>
    /\ heartbeat_sent_at = NoTime
    /\ last_contact = 0
    /\ last_rebuild = NoTime
    /\ sp_num_channels = 0
    /\ downsampling_factor = 1
    /\ downsampling_method = "average"
    /\ ds_sample_buffer = <<>>
    /\ buffer_position = 0
    /\ samples_accumulated = 0
    /\ batch_size = 1
    /\ batch_timeout_ms = 10
    /\ bb_sample_buffer = <<>>
    /\ last_batch_time = 0
    /\ sp_inputs = <<>>
    /\ sp_reduced = <<>>
    /\ sp_added = <<>>
    /\ sp_batches = <<>>
    /\ osc_running = FALSE
    /\ data_queue = <<>>
    /\ queue_max_size = default_queue_max_size
    /\ queue_overflow_strategy = "drop_oldest"
    /\ queue_overflows = 0
    /\ messages_dropped = 0
    /\ osc_received = 0
    /\ osc_sent = <<>>
    /\ subscribers = [type \in EventTypes |-> <<>>]
    /\ bus_lock = [owner |-> "none", count |-> 0]
    /\ stack = [t \in Threads |-> <<>>]
    /\ publishes = <<>>
    /\ bus_calls = 0
    /\ bus_log = <<>>
    /\ app_pc = "new"
    /\ shutdown_requested = FALSE
    /\ zmq_running = FALSE
    /\ interface_running = FALSE
    /\ stop_calls = <<>>
    /\ signalled = FALSE
    /\ in_push = NoPush
    /\ timeouts_fired = 0
    /\ message_num = 0
    /\ message_log = <<>>
    /\ open_data_sockets = 0
    /\ open_heartbeat_sockets = 0
    /\ epoch = 0
    /\ epoch_of = <<>>
    /\ sender_window = <<>>
    /\ windows_emitted = <<>>
    /\ queue_lock = "none"
    /\ sender_pc = "idle"
    /\ enqueue_pc = "idle"
    /\ queue_accesses = {}
    /\ dispatch = <<>>
    /\ chain_log = <<>>
    /\ keys_pressed = 0
    /\ view_queue = <<>>
    /\ transmitted = NoTransmission
    /\ service_loop = "not_started"
    /\ last_iteration = "none"
    /\ connection_active = FALSE
    /\ send_log = <<>>

\* The buffers and the discovery state of the manager, driven through its own
\* interface in any order, with the clock standing still.
NextDM ==
    \/ \E c \in ChannelIds : add_or_expand_channel(c) /\ UNCHANGED observed /\ UNCHANGED beside_data
    \/ \E c \in PushIds, k \in BlockSizes : push_data(c, k) /\ UNCHANGED beside_data
    \/ \E n \in PopCounts : pop_data_all_channels(n) /\ UNCHANGED beside_data
    \/ reinit_for_new_setup /\ UNCHANGED beside_data

SpecDM == Init /\ [][NextDM]_vars

\* The same with a producer that never pushes more than a channel has room
\* for: no channel ever holds more than buffer_size unconsumed samples.
NextFifo ==
    \/ \E c \in ChannelIds : add_or_expand_channel(c) /\ UNCHANGED observed /\ UNCHANGED beside_data
    \/ \E c \in ChannelIds, k \in 1..buffer_size :
          /\ c < Len(channels)
          /\ Unconsumed(channels[c + 1]) + k <= buffer_size
          /\ push_data(c, k)
          /\ UNCHANGED beside_data
    \/ \E n \in 1..buffer_size : pop_data_all_channels(n) /\ UNCHANGED beside_data
    \/ reinit_for_new_setup /\ UNCHANGED beside_data

SpecFifo == Init /\ [][NextFifo]_vars

\* Channel discovery alone: at most MaxObserved observations between two
\* reinits, of ids up to one above MaxChannelId, each recorded in observed.
Observe(c) ==
    /\ Len(observed) < MaxObserved
    /\ add_or_expand_channel(c)
    /\ observed' = Append(observed, c)

NextDiscovery ==
    \/ \E c \in 0..(MaxChannelId + 1) : Observe(c) /\ UNCHANGED beside_data
    \/ reinit_for_new_setup /\ UNCHANGED beside_data

SpecDiscovery == Init /\ [][NextDiscovery]_vars

\* The manager with its timeout detector and the clock running; blocks are
\* single samples or too large.
NextTime ==
    \/ \E c \in ChannelIds : add_or_expand_channel(c) /\ UNCHANGED observed /\ UNCHANGED beside_data
    \/ \E c \in PushIds, k \in {1, buffer_size + 1} : push_data(c, k) /\ UNCHANGED beside_data
    \/ \E s \in TimeoutChoices, a \in BOOLEAN : configure_timeout(s, a) /\ UNCHANGED beside_data
    \/ check_timeout /\ UNCHANGED beside_data
    \/ reinit_for_new_setup /\ UNCHANGED beside_data
    \/ Tick /\ UNCHANGED beside_data

SpecTime == Init /\ [][NextTime]_vars

\* The data path of the connection thread's service loop (_run): the frames
\* it receives, each with a payload of l samples and a header that declares
\* l samples or one more, and the reinit command.  The clock stands still;
\* an automatic reinit has the effect on the manager that the manual one has.
NextData ==
    \/ \E c \in ChannelIds, l \in BlockSizes : \E k \in {l, l + 1} : _process_data_frame(c, k, l) /\ UNCHANGED beside_data
    \/ manual_reinit_data_manager /\ UNCHANGED beside_data

Spec == Init /\ [][NextData]_vars

\* The service loop with its data-timeout handling and the clock running;
\* frames carry single samples.
NextLoop ==
    \/ \E c \in ChannelIds : _process_data_frame(c, 1, 1) /\ UNCHANGED beside_data
    \/ \E s \in TimeoutChoices, a \in BOOLEAN : configure_timeout(s, a) /\ UNCHANGED beside_data
    \/ _handle_data_timeout /\ UNCHANGED beside_data
    \/ manual_reinit_data_manager /\ UNCHANGED beside_data
    \/ LoopTick /\ UNCHANGED beside_data

SpecLoop == Init /\ [][NextLoop]_vars

\* What the service loop leaves alone while its timeouts are counted.
beside_loop == <<hb_vars, sp_vars, osc_vars, bus_vars, app_vars, in_push, msg_vars,
                 sock_vars, sender_vars, lock_vars, wiring_vars>>

\* The service loop without the manual reinit: the timeout is configured, data
\* frames of single samples arrive or do not, the clock runs, and every
\* iteration runs _handle_data_timeout.
NextSilence ==
    \/ \E s \in TimeoutChoices, a \in BOOLEAN :
          configure_timeout(s, a) /\ timeouts_fired' = 0 /\ UNCHANGED beside_loop
    \/ \E c \in ChannelIds :
          /\ _process_data_frame(c, 1, 1)
          /\ timeouts_fired' = IF \E i \in 1..Len(published') : published'[i] = DataReceivedEvent
                               THEN 0 ELSE timeouts_fired
          /\ UNCHANGED beside_loop
    \/ /\ _handle_data_timeout
       /\ timeouts_fired' = IF TimeoutFires THEN timeouts_fired + 1 ELSE timeouts_fired
       /\ UNCHANGED beside_loop
    \/ LoopTick /\ UNCHANGED timeouts_fired /\ UNCHANGED beside_loop

SpecSilence == Init /\ [][NextSilence]_vars

\* What a frame of the data socket leaves alone.
beside_messages == <<hb_vars, sp_vars, osc_vars, bus_vars, app_vars, in_push,
                     timeouts_fired, sock_vars, sender_vars, lock_vars, wiring_vars>>

\* The frames of the data socket as the service loop hands them to
\* _handle_data_message, with any message number and any type; data frames
\* are of channel 0.
NextMessages ==
    \E n \in 0..MaxMessageNum, type \in FrameTypes :
        _handle_data_message(n, type, 0) /\ UNCHANGED beside_messages

SpecMessages == Init /\ [][NextMessages]_vars

\* The manager between the connection thread, which receives data frames and
\* pushes and pops, and the interface's keyboard thread, which hands over the
\* manual reinit.  The connection thread does one thing at a time.
NextThreads ==
    \/ \E c \in ChannelIds : in_push = NoPush /\ add_or_expand_channel(c)
                                /\ UNCHANGED observed /\ UNCHANGED beside_data
    \/ \E c \in ChannelIds, k \in 1..buffer_size : push_data_enter(c, k) /\ UNCHANGED beside_threads
    \/ push_data_finish /\ UNCHANGED beside_threads
    \/ \E n \in PopCounts : in_push = NoPush /\ pop_data_all_channels(n) /\ UNCHANGED beside_data
    \/ zmq_on_status_update /\ UNCHANGED beside_threads

SpecThreads == Init /\ [][NextThreads]_vars

\* The heartbeat side of the service loop: _init_sockets, then iterations of
\* _handle_heartbeat_timeout followed by the poll; the server answers a
\* heartbeat or not, and the clock runs.
NextHeartbeat ==
    \/ _init_sockets /\ UNCHANGED sock_vars
    \/ _handle_heartbeat_timeout /\ UNCHANGED sock_vars
    \/ _handle_heartbeat_reply /\ UNCHANGED sock_vars
    \/ PollWithoutReply /\ UNCHANGED sock_vars
    \/ ServerReplies /\ UNCHANGED sock_vars
    \/ HeartbeatTick /\ UNCHANGED sock_vars

SpecHeartbeat == Init /\ [][NextHeartbeat]_vars

\* The heartbeat side of the service loop with the sockets it opens and
\* closes.
NextSockets ==
    \/ _init_sockets /\ SocketsAfterInit(connection_status' = "CONNECTED")
    \/ /\ _handle_heartbeat_timeout
       /\ IF ret'.flag THEN SocketsAfterReconnect(connection_status' = "CONNECTED")
          ELSE UNCHANGED sock_vars
    \/ _handle_heartbeat_reply /\ UNCHANGED sock_vars
    \/ PollWithoutReply /\ UNCHANGED sock_vars
    \/ ServerReplies /\ UNCHANGED sock_vars
    \/ HeartbeatTick /\ UNCHANGED sock_vars
    \/ socket_finalized

SpecSockets == Init /\ [][NextSockets]_vars

\* The processing pipeline driven through DataProcessor: one configuration,
\* then blocks of samples, flushes and resets, with the clock running.
NextProcessor ==
    \/ \E f \in 1..MaxFactor, m \in Methods, b \in 1..MaxBatch, t \in BatchTimeouts :
          initialize(f, m, b, t)
    \/ \E n \in 1..MaxBlock : process_datalist(n)
    \/ flush_pending
    \/ reset
    \/ PipelineTick

SpecProcessor == Init /\ [][NextProcessor]_vars

\* The same where nothing but the passing of time is certain to happen: no
\* thread of the program calls into the pipeline unless data arrives.
SpecProcessorLive == SpecProcessor /\ WF_vars(PipelineTick)

\* The batching stage on its own, given samples that are arrays of their own.
NextBatching ==
    \/ \E b \in 2..MaxBatch, t \in BatchTimeouts : NewBatchingBuffer(b, t)
    \/ \E n \in 0..MaxBlock : bb_add_samples(n)
    \/ flush_pending
    \/ reset
    \/ PipelineTick

SpecBatching == Init /\ [][NextBatching]_vars

\* The output queue: the event handler and the sender loop in any interleaving.
NextOSC ==
    \/ \E m \in 0..MaxQueueSize, strategy \in OverflowStrategies :
          OSCService(m, strategy) /\ UNCHANGED <<sender_vars, lock_vars, wiring_vars>>
    \/ _on_data_received /\ UNCHANGED <<sender_vars, lock_vars, wiring_vars>>
    \/ osc_run /\ UNCHANGED <<sender_vars, lock_vars, wiring_vars>>
    \/ \E type \in StatusUpdateTypes : _on_status_update(type) /\ UNCHANGED <<sender_vars, lock_vars, wiring_vars>>

SpecOSC == Init /\ [][NextOSC]_vars

\* The sender between the connection thread, which enqueues processed data
\* and completes reinits, and its own loop, with the default queue.
NextSender ==
    \/ OSCService(default_queue_max_size, "drop_oldest") /\ UNCHANGED <<sender_vars, lock_vars, wiring_vars>>
    \/ sender_on_data_received /\ UNCHANGED <<lock_vars, wiring_vars>>
    \/ sender_run /\ UNCHANGED <<lock_vars, wiring_vars>>
    \/ \E type \in StatusUpdateTypes : sender_on_reinit_completed(type) /\ UNCHANGED <<lock_vars, wiring_vars>>

SpecSender == Init /\ [][NextSender]_vars

\* The queue between the enqueue handler on the connection thread, the sender
\* loop and the reinit handler, each step taken with or without the mutex as
\* the code takes it.
NextQueueLock ==
    \/ \E m \in {1, MaxQueueSize}, strategy \in OverflowStrategies :
          OSCService(m, strategy) /\ UNCHANGED <<sender_vars, lock_vars, wiring_vars>>
    \/ enqueue_acquire
    \/ enqueue_locked
    \/ sender_acquire
    \/ sender_locked
    \/ _send_data
    \/ \E type \in StatusUpdateTypes : reinit_on_status_update(type)

SpecQueueLock == Init /\ [][NextQueueLock]_vars

\* The bus called from two threads and from inside the callbacks, for events
\* of one type.
NextBus ==
    \/ \E t \in Threads, op \in BusOps, h \in Handlers : call_bus(t, op, "status_update", h)
    \/ \E t \in Threads, op \in BusOps, h \in Handlers :
          handler_calls_bus(t, op, "status_update", h)
    \/ \E t \in Threads : acquire_lock(t)
    \/ \E t \in Threads : subscribe(t)
    \/ \E t \in Threads : unsubscribe(t)
    \/ \E t \in Threads : publish_copy(t)
    \/ \E t \in Threads : publish_call(t)
    \/ \E t \in Threads : handler_returns(t)

SpecBus == Init /\ [][NextBus]_vars

\* The bus called from one thread and from inside the callbacks, for events of
\* two types.
NextEvents ==
    \/ \E op \in BusOps, type \in EventTypes, h \in Handlers : call_bus("zmq", op, type, h)
    \/ \E op \in BusOps, type \in EventTypes, h \in Handlers :
          handler_calls_bus("zmq", op, type, h)
    \/ acquire_lock("zmq")
    \/ subscribe("zmq")
    \/ unsubscribe("zmq")
    \/ publish_copy("zmq")
    \/ publish_call("zmq")
    \/ handler_returns("zmq")

SpecEvents == Init /\ [][NextEvents]_vars

\* The application from its construction to the return of run(), with the
\* output queue of the OSC service at work while the process lives.
NextApp ==
    \/ \E ok \in BOOLEAN : start(ok)
    \/ signal_handler
    \/ _on_shutdown_requested
    \/ run
    \/ (app_pc # "exited" /\ _on_data_received /\ UNCHANGED <<sender_vars, lock_vars, wiring_vars>>)
    \/ (app_pc # "exited" /\ osc_run /\ UNCHANGED <<sender_vars, lock_vars, wiring_vars>>)

SpecApp == Init /\ [][NextApp]_vars

\* The sources and the kinds of the status updates published from outside the
\* callbacks.
ChainSources == {"ZMQService", "CLIInterface", "Dashboard"}
ChainKinds == {"execute_manual_reinit", "manual_reinit_request", "other"}

\* The status updates between the components while frames of channel 0 arrive: a
\* component or the dashboard publishes one, and the publish calls run.
NextReinitChain ==
    \/ OSCService(default_queue_max_size, "drop_oldest") /\ UNCHANGED <<sender_vars, lock_vars, wiring_vars>>
    \/ _process_data_frame(0, 1, 1) /\ UNCHANGED beside_data
    \/ \E kind \in ChainKinds, source \in ChainSources : publish_event(kind, source)
    \/ deliver

SpecReinitChain == Init /\ [][NextReinitChain]_vars

\* The connection thread from start() to the end of _run: frames arrive,
\* turns of the loop fail, stop() is called.
NextRun ==
    \/ zmq_service_start
    \/ zmq_service_stop
    \/ \E n \in 0..MaxMessageNum, type \in FrameTypes : run_handles_message(n, type)
    \/ \E error \in LoopErrors : run_fails(error)
    \/ run_returns

SpecRun == Init /\ [][NextRun]_vars

\* The output queue with the client behind it: datalists are enqueued, the
\* sender loop dequeues and sends them, and the client raises at times.
NextConnection ==
    \/ \E m \in {1, MaxQueueSize}, strategy \in OverflowStrategies : osc_service_start(m, strategy)
    \/ _on_data_received /\ UNCHANGED <<sender_vars, lock_vars, wiring_vars>>
    \/ \E raises \in BOOLEAN : run_send_data(raises)

SpecConnection == Init /\ [][NextConnection]_vars

\* The datalists between the connection thread, which receives frames of
\* single samples and completes reinits, and the sender loop.
NextViews ==
    \/ \E c \in ChannelIds : frame_received(c)
    \/ reinit_between_frames
    \/ send_combined_data

SpecViews == Init /\ [][NextViews]_vars

\* The manual reinit as the user asks for it: Ctrl+F keys are read while data
\* frames arrive, and the publish calls run.
NextManualReinit ==
    \/ OSCService(default_queue_max_size, "drop_oldest") /\ UNCHANGED <<sender_vars, lock_vars, wiring_vars>>
    \/ _process_data_frame(0, 1, 1) /\ UNCHANGED beside_data
    \/ _handle_manual_reinit_request
    \/ deliver

\* A publish call in progress goes on: the thread that made it is running.
SpecManualReinit == Init /\ [][NextManualReinit]_vars /\ WF_vars(deliver)

\* ---------------------------------------------------------------- claims

\* The processed-data events among those the last operation published.
ProcessedEvents == {i \in 1..Len(published) : published[i].type = "DATA_PROCESSED"}

\* The samples numbered first..last of a channel, in order.
Samples(first, last) == [i \in 1..(last - first + 1) |-> first + i - 1]

\* C1: every block the connection loop publishes as processed data holds, for
\* each discovered channel, the same sample-number range: the slice of every
\* discovered channel holds the samples k..k+n-1 of that channel for one k,
\* n being the popped count.  Checked under Spec.
C1_SameSampleRange ==
    \A i \in ProcessedEvents :
        \E k \in 1..MaxSamples :
            \A c \in discovered_channels :
                published[i].datalist[c + 1] =
                    Samples(k, k + published[i].num_samples - 1)

\* C2: in every state of the manager reachable by add_or_expand_channel,
\* push_data, pop_data_all_channels and reinit_for_new_setup, every channel
\* holds between 0 and buffer_size unconsumed samples (a push beyond the
\* capacity is not accepted).  Checked under SpecDM.
C2_CapacityInvariant ==
    \A i \in 1..Len(channels) :
        /\ 0 <= Unconsumed(channels[i])
        /\ Unconsumed(channels[i]) <= buffer_size

\* C3: after pushes only (no pop since the last reinit) that leave every
\* channel with at most buffer_size samples, a pop_data_all_channels(n) with
\* 1 <= n <= unconsumed returns for each channel exactly its last n pushed
\* samples in their original order.  Checked under SpecDM.
C3_PopReturnsLastPushed ==
    ( /\ ret.op = "pop_data_all_channels"
      /\ ret.err = ""
      /\ \A i \in 1..Len(channels) :
            /\ channels[i].head_sample_number = ret.n
            /\ channels[i].tail_sample_number <= buffer_size )
    => /\ Len(ret.popped) = Len(channels)
       /\ \A i \in 1..Len(channels) :
            ret.popped[i] = Samples(channels[i].tail_sample_number - ret.n + 1,
                                    channels[i].tail_sample_number)

\* The minimum unconsumed count over the discovered channels.
MinUnconsumed ==
    Min({Unconsumed(channels[c + 1]) : c \in discovered_channels})

\* C4: in every state reachable by add_or_expand_channel, push_data and
\* pop_data_all_channels, has_data_ready(m) is true if and only if discovery
\* is complete and the minimum unconsumed count over the discovered channels
\* is at least m.  Checked under SpecDM.
C4_ReadyIffMinUnconsumed ==
    \A m \in 1..(buffer_size + 1) :
        has_data_ready(m) <=> (~channel_discovery_mode /\ MinUnconsumed >= m)

\* C5: pop_data_all_channels(n), n >= 1, is atomic over the channels: if every
\* channel holds at least n unconsumed samples it succeeds and every channel's
\* unconsumed count decreases by exactly n; otherwise it fails and no
\* channel's head_sample_number, tail_index or tail_sample_number has changed.
\* Checked under SpecDM.
C5_PopAllAtomic ==
    [][ (ret'.op = "pop_data_all_channels" /\ ret'.n >= 1) =>
          IF \A i \in 1..Len(channels) : Unconsumed(channels[i]) >= ret'.n
          THEN /\ ret'.err = ""
               /\ Len(channels') = Len(channels)
               /\ \A i \in 1..Len(channels) :
                    Unconsumed(channels'[i]) = Unconsumed(channels[i]) - ret'.n
          ELSE /\ ret'.err # ""
               /\ \A i \in 1..Len(channels) :
                    /\ channels'[i].head_sample_number = channels[i].head_sample_number
                    /\ channels'[i].tail_index = channels[i].tail_index
                    /\ channels'[i].tail_sample_number = channels[i].tail_sample_number
      ]_vars

\* The position in seq of the first id that occurred before in it, 0 if none.
FirstRepeat(seq) ==
    LET repeats == {i \in 1..Len(seq) : \E j \in 1..(i - 1) : seq[j] = seq[i]}
    IN  IF repeats = {} THEN 0 ELSE Min(repeats)

\* C6: since the last reinit (or construction) add_or_expand_channel reports
\* completion exactly once, on the first observation of an id that was observed
\* before, and on no earlier or later call; discovery_mode is false from then
\* on, and at completion the discovered set holds the ids observed so far
\* (<<0, 1, 2, 0>> completes on the second 0 with {0, 1, 2}).  Checked under
\* SpecDiscovery.
C6_DiscoveryCompletesOnce ==
    LET r == FirstRepeat(observed)
        completing == r # 0 /\ r = Len(observed)
    IN  /\ channel_discovery_mode <=> (r = 0)
        /\ ret.op = "add_or_expand_channel" => (ret.flag <=> completing)
        /\ completing => discovered_channels = {observed[j] : j \in 1..r}
        /\ observed = <<0, 1, 2, 0>> =>
              ret.flag /\ discovered_channels = {0, 1, 2} /\ ~channel_discovery_mode

C6_Witness ==
    /\ observed = <<0, 1, 2, 0>>
    /\ ret.op = "add_or_expand_channel"
    /\ ret.flag
    /\ discovered_channels = {0, 1, 2}

\* C7: while channel_discovery_mode is true, has_data_ready is false for every
\* min_samples and the frame just handled published no processed-data event,
\* whatever was pushed.  Checked under Spec.
C7_NothingSurfacedInDiscovery ==
    channel_discovery_mode =>
        /\ \A m \in (0 - 1)..(buffer_size + 1) : ~has_data_ready(m)
        /\ ProcessedEvents = {}

C7_Witness ==
    /\ channel_discovery_mode
    /\ ret.op = "_process_data_frame"
    /\ ret.err = ""
    /\ lowest_tail_index >= 1
    /\ \E i \in 1..Len(channels) : Unconsumed(channels[i]) >= 1

\* C8: push_data fails with "Invalid channel ID." when channel_id is no index
\* of channels, and (for a valid channel_id) with "Data exceeds buffer size."
\* when the block holds more than buffer_size samples; in both cases the
\* channels, the readiness value and the data-timeout timestamp and flag are
\* as they were.  Checked under SpecTime.
C8_FailedPushChangesNothing ==
    [][ ret'.op = "push_data" =>
          LET invalid == ret'.c < 0 \/ ret'.c >= Len(channels)
              too_large == ret'.n > buffer_size
          IN  /\ invalid => ret'.err = "Invalid channel ID."
              /\ (~invalid /\ too_large) => ret'.err = "Data exceeds buffer size."
              /\ (invalid \/ too_large) =>
                    /\ UNCHANGED dm_vars
                    /\ \A m \in PopCounts : has_data_ready(m)' = has_data_ready(m)
      ]_vars

C8_Witness ==
    /\ ret.op = "push_data"
    /\ ret.err = "Data exceeds buffer size."
    /\ timeout_triggered
    /\ last_data_time < now
    /\ \E i \in 1..Len(channels) : Unconsumed(channels[i]) >= 1

\* C9: check_timeout returns true only when no data was pushed for at least
\* the configured window, and not again after it returned true until a push,
\* a configure_timeout or a reinit has occurred.  Checked under SpecTime.
C9_TimeoutEdgeTriggered ==
    [][ (ret'.op = "check_timeout" /\ ret'.flag) =>
          /\ ~fired
          /\ last_push # 0 - 1 => now - last_push >= timeout_seconds
      ]_vars

C9_Witness ==
    /\ ret.op = "check_timeout"
    /\ ~ret.flag
    /\ fired
    /\ last_push # 0 - 1
    /\ now - last_push >= timeout_seconds

\* The empty-bootstrap state of the manager.
Bootstrap ==
    /\ channels = <<EmptyChannel(0)>>
    /\ discovered_channels = {}
    /\ max_channel_id = 0 - 1
    /\ channel_discovery_mode
    /\ lowest_tail_index = 0
    /\ ~timeout_triggered

\* The previous channel count the reinit just run reported in its event.
ReportedPrevious == published[1].previous_channels

\* C10 as stated: a reinit leaves the manager in the empty-bootstrap state, and
\* the second of two reinits in a row reports the previous channel count 1.
\* Checked under SpecLoop.
C10_SecondReinitReportsOne ==
    ret.op = "manual_reinit_data_manager" =>
        /\ Bootstrap
        /\ Len(reinit_reports) = 2 => ReportedPrevious = 1

\* C10 as amended: a reinit leaves the manager in the empty-bootstrap state, and
\* the second of two reinits in a row reports the previous channel count 0, the
\* number of discovered channels of the bootstrap state, whatever the first
\* one reported; the snapshot it returns counts 1 channel buffer.
C10_ReinitIdempotent ==
    ret.op = "manual_reinit_data_manager" =>
        /\ Bootstrap
        /\ ReportedPrevious = ret.previous_state.total_channels
        /\ Len(reinit_reports) = 2 =>
              /\ ReportedPrevious = 0
              /\ reinit_reports[2] = 0
              /\ ret.previous_state.total_channels = 0
              /\ ret.previous_state.buffer_channels = 1
              /\ ret.previous_state.discovered_channels = {}

C10_Witness ==
    /\ ret.op = "manual_reinit_data_manager"
    /\ reinit_reports = <<2, 0>>
    /\ ReportedPrevious = 0
    /\ Bootstrap

\* C11: when _handle_heartbeat_timeout runs and the heartbeat sent has had no
\* reply for more than heartbeat_timeout_duration, the status becomes
\* NOT_RESPONDING; if in addition nothing was heard for more than
\* not_responding_timeout_duration since the last reply (or the last rebuild,
\* or construction), the status goes on to RECONNECTING and the sockets are
\* rebuilt; a rebuild happens in no other case, so not again on the ticks
\* within not_responding_timeout_duration of the last one.  Checked under
\* SpecHeartbeat.
C11_HeartbeatFSM ==
    [][ ret'.op = "_handle_heartbeat_timeout" =>
          LET due == /\ heartbeat_sent_at # NoTime
                     /\ now - heartbeat_sent_at > heartbeat_timeout_duration
              lost == due /\ now - last_contact > not_responding_timeout_duration
          IN  /\ (due /\ ~lost) => connection_status' = "NOT_RESPONDING"
              /\ (due /\ connection_status # "NOT_RESPONDING") =>
                    /\ Len(status_trace') >= 2
                    /\ status_trace'[2] = "NOT_RESPONDING"
              /\ lost => /\ Len(status_trace') >= 3
                         /\ status_trace'[2] = "NOT_RESPONDING"
                         /\ status_trace'[3] = "RECONNECTING"
              /\ ret'.flag <=> lost
              /\ ret'.flag <=> last_rebuild' # last_rebuild
              /\ ret'.flag =>
                    \/ last_rebuild = NoTime
                    \/ now - last_rebuild > not_responding_timeout_duration
      ]_vars

\* A second rebuild, more than not_responding_timeout_duration after the first.
C11_Witness ==
    /\ ret.op = "_handle_heartbeat_timeout"
    /\ ret.flag
    /\ last_rebuild = now
    /\ now > 2 * not_responding_timeout_duration
    /\ status_trace[2] = "NOT_RESPONDING"
    /\ status_trace[3] = "RECONNECTING"

\* The status changes of the last step: the pairs of unequal neighbours of
\* status_trace.
StatusChanges ==
    {<<status_trace[i], status_trace[i + 1]>> : i \in
        {j \in 1..(Len(status_trace) - 1) : status_trace[j] # status_trace[j + 1]}}

\* The edges C12 names.
StatedEdges ==
    {<<"NOT_CONNECTED", "CONNECTING">>, <<"CONNECTING", "CONNECTED">>,
     <<"CONNECTED", "ONLINE">>, <<"ONLINE", "NOT_RESPONDING">>,
     <<"NOT_RESPONDING", "ONLINE">>, <<"NOT_RESPONDING", "RECONNECTING">>,
     <<"RECONNECTING", "CONNECTING">>}

\* C12 as stated: every change of connection_status is one of the edges
\* NOT_CONNECTED -> CONNECTING -> CONNECTED -> ONLINE <-> NOT_RESPONDING ->
\* RECONNECTING -> CONNECTING.  Checked under SpecHeartbeat.
C12_StatedEdgesOnly ==
    StatusChanges \subseteq StatedEdges

\* C12 as amended: every change of connection_status is one of the stated
\* edges, or CONNECTED -> NOT_RESPONDING (the first heartbeat after the sockets
\* were built has no reply), or CONNECTING -> NOT_CONNECTED (building the
\* sockets failed); ONLINE is entered only by _handle_heartbeat_reply.
C12_StatusEdges ==
    /\ StatusChanges \subseteq
          StatedEdges \cup {<<"CONNECTED", "NOT_RESPONDING">>,
                            <<"CONNECTING", "NOT_CONNECTED">>}
    /\ (\E e \in StatusChanges : e[2] = "ONLINE") => ret.op = "_handle_heartbeat_reply"
    /\ Len(status_trace) >= 1
    /\ status_trace[Len(status_trace)] = connection_status

\* NOT_RESPONDING entered from CONNECTED.
C12_Witness ==
    /\ ret.op = "_handle_heartbeat_timeout"
    /\ status_trace = <<"CONNECTED", "NOT_RESPONDING">>
    /\ connection_status = "NOT_RESPONDING"

\* The samples of a batch, one row each, read back from its flattened data.
BatchRows(batch) ==
    [k \in 1..batch.chunk_size |->
        [c \in 1..batch.num_channels |->
            batch.flattened_data[(c - 1) * batch.chunk_size + k]]]

RECURSIVE ConcatRows(_)
\* The samples of a sequence of batches, in order.
ConcatRows(batches) ==
    IF batches = <<>> THEN <<>>
    ELSE BatchRows(Head(batches)) \o ConcatRows(Tail(batches))

\* The downsampling stage exists.
Downsampling == sp_num_channels > 0 /\ downsampling_factor > 1

\* C13: with a downsampling factor F above 1, after N samples were delivered
\* since construction or the last reset, in blocks of any sizes, the
\* downsampling stage has emitted N div F reduced samples and holds N mod F
\* samples in its window.  Checked under SpecProcessor.
C13_EmittedAndPartial ==
    Downsampling =>
        /\ Len(sp_reduced) = Delivered \div downsampling_factor
        /\ buffer_position = Delivered % downsampling_factor

C13_Witness ==
    /\ Downsampling
    /\ ret.op = "process_datalist"
    /\ ret.n = 2
    /\ Delivered = 2 * downsampling_factor + 1
    /\ Len(sp_reduced) = 2
    /\ buffer_position = 1

\* The reduced sample the j-th window of the delivered samples stands for.
ExpectedReduced(j) ==
    LET window == SubSeq(sp_inputs, (j - 1) * downsampling_factor + 1,
                         j * downsampling_factor)
    IN  IF downsampling_method = "decimate" THEN window[downsampling_factor]
        ELSE Mean(window)

\* The reduced samples as the consumer has them: those in the batches put
\* out, then those pending in the batching stage.
SeenByConsumer ==
    ConcatRows(sp_batches) \o Values(bb_sample_buffer, ds_sample_buffer)

\* C14: every reduced sample, as the consumer has it, is computed from the F
\* consecutive delivered samples of its own window: their element-wise mean
\* with method average, the last of them (the (j*F)-th delivered sample for the
\* j-th reduced one) with method decimate; also when several windows complete
\* in one call and after more samples were added.  Checked under SpecProcessor.
C14_ReducedFromOwnWindow ==
    Downsampling =>
        SeenByConsumer =
            [j \in 1..(Delivered \div downsampling_factor) |-> ExpectedReduced(j)]

PendingPastTimeout ==
    /\ sp_num_channels > 0
    /\ batch_size > 1
    /\ bb_sample_buffer # <<>>
    /\ (now - last_batch_time) * 1000 >= batch_timeout_ms

\* C16: when samples are pending in the batching stage and batch_timeout_ms
\* has elapsed since the last batch, they are eventually emitted, with no
\* further input needed.  Checked under SpecProcessorLive, where only the
\* passing of time is certain.
C16_TimeoutFlushes ==
    PendingPastTimeout ~> (bb_sample_buffer = <<>>)

\* C17: with the policy drop_oldest and a maximum depth M of at least 1, in
\* any interleaving of enqueues and dequeues the queue never holds more than M
\* items, and an enqueue on a full queue discards the oldest item, appends the
\* new one and raises the drop count by exactly one.  Checked under SpecOSC.
C17_DropOldest ==
    [][ (queue_overflow_strategy' = "drop_oldest" /\ queue_max_size' >= 1) =>
          /\ Len(data_queue') <= queue_max_size'
          /\ (/\ ret'.op = "_on_data_received"
              /\ osc_received' = osc_received + 1
              /\ Len(data_queue) >= queue_max_size) =>
                  /\ data_queue' = Append(Tail(data_queue), osc_received')
                  /\ messages_dropped' = messages_dropped + 1 ]_vars

\* Items 1..MaxQueueSize + 1 enqueued with no dequeue under drop_oldest.
C17_Witness ==
    /\ queue_overflow_strategy = "drop_oldest"
    /\ queue_max_size = MaxQueueSize
    /\ ret.op = "_on_data_received"
    /\ osc_sent = <<>>
    /\ osc_received = MaxQueueSize + 1
    /\ data_queue = [i \in 1..MaxQueueSize |-> i + 1]
    /\ messages_dropped = 1

\* C18: with the policy drop_newest and a maximum depth M, an enqueue on a full
\* queue discards the incoming item, leaves the queue as it was and counts one
\* drop, so the queue never holds more than M items.  Checked under SpecOSC.
C18_DropNewest ==
    [][ queue_overflow_strategy' = "drop_newest" =>
          /\ Len(data_queue') <= queue_max_size'
          /\ (/\ ret'.op = "_on_data_received"
              /\ osc_received' = osc_received + 1
              /\ Len(data_queue) >= queue_max_size) =>
                  /\ data_queue' = data_queue
                  /\ messages_dropped' = messages_dropped + 1 ]_vars

\* a is the beginning of b.
IsPrefix(a, b) == Len(a) <= Len(b) /\ SubSeq(b, 1, Len(a)) = a

\* C19: when a handler raises during a publish, every other handler in the
\* subscriber list at the time of the publish is still invoked, once for each
\* of its subscriptions and in the order of the list, and publish returns
\* normally.  Checked under SpecBus.
C19_RaisingHandlerIsolated ==
    \A p \in 1..Len(publishes) :
        (\E k \in 1..Len(publishes[p].invoked) : Raises(publishes[p].invoked[k])) =>
            /\ publishes[p].result \in {"running", "returned"}
            /\ IsPrefix(publishes[p].invoked, publishes[p].snapshot)
            /\ publishes[p].result = "returned" =>
                  publishes[p].invoked = publishes[p].snapshot

\* A publish has returned after its first callback raised and its second,
\* another handler, was called.
C19_Witness ==
    \E p \in 1..Len(publishes) :
        /\ publishes[p].result = "returned"
        /\ Len(publishes[p].snapshot) = 2
        /\ Raises(publishes[p].snapshot[1])
        /\ ~Raises(publishes[p].snapshot[2])
        /\ publishes[p].invoked = publishes[p].snapshot

\* The thread waits for the lock another thread holds.
Waiting(t) == stack[t] # <<>> /\ Top(t).pc = "acquire" /\ ~CanAcquire(t)

\* The thread is inside a callback that publish called.
InHandler(t) == \E k \in 1..Len(stack[t]) : stack[t][k].op = "handler"

\* C20: publish copies the subscriber list while it holds the lock of the bus
\* and calls the handlers with the lock released; a handler that publishes,
\* subscribes or unsubscribes inside its callback never deadlocks, also while
\* another thread publishes or subscribes; and a change of the list during a
\* publish does not change the handlers that publish calls.  Checked under
\* SpecBus.
C20_SnapshotOutsideLock ==
    [][ /\ \A p \in 1..Len(publishes) :
              (publishes'[p].copied /\ ~publishes[p].copied) =>
                  /\ bus_lock.owner \in Threads
                  /\ publishes'[p].snapshot = subscribers[publishes[p].event.event_type]
        /\ \A t \in Threads :
              (Len(stack'[t]) > Len(stack[t]) /\ Top(t)'.op = "handler") =>
                  bus_lock.owner # t
        /\ \A t \in Threads :
              bus_lock'.owner = t => (stack'[t] # <<>> /\ Top(t)'.pc = "locked")
        /\ \A t \in Threads :
              Waiting(t)' =>
                  \E u \in Threads \ {t} :
                      bus_lock'.owner = u /\ stack'[u] # <<>> /\ Top(u)'.pc = "locked"
        /\ \A p \in 1..Len(publishes') :
              /\ IsPrefix(publishes'[p].invoked, publishes'[p].snapshot)
              /\ publishes'[p].result = "returned" =>
                    publishes'[p].invoked = publishes'[p].snapshot ]_vars

\* A handler, called by a publish, is inside subscribe or unsubscribe with the
\* lock held while the other thread, publishing, waits for the lock.
C20_Witness ==
    \E t \in Threads, u \in Threads :
        /\ t # u
        /\ InHandler(t)
        /\ Top(t).op \in {"subscribe", "unsubscribe"}
        /\ Top(t).pc = "locked"
        /\ Waiting(u)
        /\ Top(u).op = "publish"

\* The list without the first occurrence of h, if there is one.
WithoutFirst(list, h) ==
    IF \E k \in 1..Len(list) : list[k] = h
    THEN LET k == Min({j \in 1..Len(list) : list[j] = h})
         IN  SubSeq(list, 1, k - 1) \o SubSeq(list, k + 1, Len(list))
    ELSE list

RECURSIVE Subscribed(_, _)
\* The subscriptions to an event type that the calls of a log leave, oldest
\* first: subscribe adds one, unsubscribe takes the oldest of the handler.
Subscribed(log, type) ==
    IF log = <<>> THEN <<>>
    ELSE LET before == Subscribed(SubSeq(log, 1, Len(log) - 1), type)
             last == log[Len(log)]
         IN  IF last.type # type THEN before
             ELSE IF last.op = "subscribe" THEN Append(before, last.h)
             ELSE WithoutFirst(before, last.h)

\* The publish has no callback in progress on any thread.
NoCallbackOf(p) ==
    \A t \in Threads : \A k \in 1..Len(stack[t]) :
        ~(stack[t][k].op = "handler" /\ stack[t][k].id = p)

C22_PushTouchesOneChannel ==
    [][ (ret'.op = "push_data" /\ ret'.err = "") =>
          /\ Len(channels') = Len(channels)
          /\ channels'[ret'.c + 1].tail_sample_number =
                channels[ret'.c + 1].tail_sample_number + ret'.n
          /\ \A i \in 1..Len(channels) : i # ret'.c + 1 => channels'[i] = channels[i] ]_vars

\* Two samples were pushed to channel 0 while channel 1 holds samples of its own.
C22_Witness ==
    /\ ret.op = "push_data"
    /\ ret.err = ""
    /\ ret.c = 0
    /\ ret.n = 2
    /\ Len(channels) = 2
    /\ channels[1].tail_sample_number = 2
    /\ channels[2].tail_sample_number > 0

\* C23: when shutdown was requested by the signal handler or by a
\* SHUTDOWN_REQUESTED event, then once run() has returned, stop() has been
\* called on the OSC service and after it on the ZMQ service, and the running
\* flags of both are cleared.  Checked under SpecApp.
C23_StoppedOnExit ==
    (signalled /\ app_pc = "exited") =>
        /\ \E i \in 1..Len(stop_calls) : \E j \in 1..Len(stop_calls) :
              i < j /\ stop_calls[i] = "osc" /\ stop_calls[j] = "zmq"
        /\ ~osc_running
        /\ ~zmq_running

C25_LayoutFixedAfterDiscovery ==
    [][(~channel_discovery_mode /\ ret'.op = "_process_data_frame") =>
          /\ discovered_channels' = discovered_channels
          /\ max_channel_id' = max_channel_id
          /\ Len(channels') = Len(channels)]_vars

\* C26: a data frame whose push succeeds, leaves no channel with more than
\* buffer_size unconsumed samples and leaves has_data_ready(1) true publishes
\* exactly one processed-data event; the event carries one array per
\* discovered channel, and the pop took the minimum unconsumed count of the
\* discovered channels, so that one of them is left with none.
\* Checked under Spec.
C26_PopsMinimumAndPublishes ==
    [][(/\ ret'.op = "_process_data_frame"
        /\ ret'.n >= 1
        /\ \A i \in 1..Len(channels') :
              channels'[i].tail_sample_number
                - (IF i <= Len(channels) THEN channels[i].head_sample_number ELSE 0)
                <= buffer_size) =>
          /\ Cardinality(ProcessedEvents') = 1
          /\ \A i \in ProcessedEvents' :
                /\ Len(published'[i].datalist) = Cardinality(discovered_channels')
                /\ published'[i].num_samples >= 1
          /\ \E d \in discovered_channels' : Unconsumed(channels'[d + 1]) = 0]_vars

\* C27: between two pushes of data (and two configurations of the timeout)
\* the data-timeout handling of the service loop fires at most once.
\* Checked under SpecSilence.
C27_TimeoutFiresOncePerSilence == timeouts_fired <= 1

\* The message number seen before frame i of the log.
SeenBefore(i) == IF i = 1 THEN 0 ELSE message_log[i - 1].message_num

\* C28: a frame whose message number is not one greater than the last seen is
\* reported as a gap and no other frame is; a frame reported as a gap is
\* passed to the method of its type all the same, its number becomes the
\* tracked one, and a frame that follows it with the next number is not
\* reported.  Checked under SpecMessages.
C28_GapReportedOnce ==
    /\ \A i \in 1..Len(message_log) :
          /\ message_log[i].gap <=> message_log[i].message_num # SeenBefore(i) + 1
          /\ message_log[i].dispatched = Dispatched(message_log[i].type)
    /\ message_log # <<>> => message_num = message_log[Len(message_log)].message_num
    /\ \A i \in 1..(Len(message_log) - 1) :
          (message_log[i].gap
             /\ message_log[i + 1].message_num = message_log[i].message_num + 1)
          => ~message_log[i + 1].gap

\* A data frame was reported as a gap, went through _process_data_frame, and
\* the frame with the next number that followed it was not reported.
C28_Witness ==
    /\ Len(message_log) = 2
    /\ message_log[1].gap
    /\ message_log[1].type = "data"
    /\ message_log[1].dispatched = "_process_data_frame"
    /\ message_log[2].message_num = message_log[1].message_num + 1
    /\ ~message_log[2].gap
    /\ message_num = message_log[2].message_num
    /\ SumTail(channels) >= 1

\* The errors for which _process_data_frame drops a frame's block.
RejectedBlock == {"Invalid channel ID.", "Data exceeds buffer size.", "cannot reshape array"}

\* C29: a data frame whose block is rejected leaves the manager as it was:
\* the discovered set, the discovery mode, max_channel_id, the channel
\* buffers and the readiness are the same after the frame as before it, and
\* the frame publishes no processed-data event.  Checked under Spec.
C29_RejectedFrameChangesNothing ==
    [][(ret'.op = "_process_data_frame" /\ ret'.err \in RejectedBlock) =>
          /\ discovered_channels' = discovered_channels
          /\ channel_discovery_mode' = channel_discovery_mode
          /\ max_channel_id' = max_channel_id
          /\ channels' = channels
          /\ HasDataReady(channels', channel_discovery_mode', lowest_tail_index', 1)
               = HasDataReady(channels, channel_discovery_mode, lowest_tail_index, 1)
          /\ ProcessedEvents' = {}]_vars

\* C30: at every moment at most one data socket and at most one heartbeat
\* socket opened by the service are open.  Checked under SpecSockets.
C30_OneSocketOfEachKind ==
    /\ open_data_sockets <= 1
    /\ open_heartbeat_sockets <= 1

\* The capacity invariant of the manager: no channel holds more unconsumed
\* samples than its buffer has room for.
CapacityHolds ==
    \A i \in 1..Len(channels) :
        Unconsumed(channels[i]) >= 0 /\ Unconsumed(channels[i]) <= buffer_size

\* C31: whenever the capacity invariant holds, every channel's tail_index is
\* its tail_sample_number modulo buffer_size.  Checked under SpecDM.
C31_TailIndexIsTailModB ==
    CapacityHolds =>
        \A i \in 1..Len(channels) :
            channels[i].tail_index = channels[i].tail_sample_number % buffer_size

\* C32: no downsampling window the sender reduces holds samples popped
\* before a reinit of the manager together with samples popped after it.
\* Checked under SpecSender.
C32_NoWindowAcrossReinit ==
    \A w \in 1..Len(windows_emitted) :
        \A i, j \in 1..Len(windows_emitted[w]) :
            epoch_of[windows_emitted[w][i]] = epoch_of[windows_emitted[w][j]]

\* C33: every read and write of the queue and of its overflow and drop
\* counters is made by a thread that holds the queue's mutex.
\* Checked under SpecQueueLock.
C33_AccessesHoldMutex == \A a \in queue_accesses : a.locked

\* The entries of the history that satisfy a condition, counted.
ReinitsMade == Cardinality({i \in 1..Len(chain_log) : chain_log[i].op = "reinit"})
CompletedPublished ==
    Cardinality({i \in 1..Len(chain_log) :
                    /\ chain_log[i].op = "publish"
                    /\ chain_log[i].event.kind = "manual_reinit_completed"})
ExecutesFromOthers ==
    Cardinality({i \in 1..Len(chain_log) :
                    /\ chain_log[i].op = "publish"
                    /\ chain_log[i].event.kind = "execute_manual_reinit"
                    /\ chain_log[i].event.source # "ZMQService"})

\* C34: every execute_manual_reinit status update published by a source other
\* than the connection service causes exactly one reinit of the manager and
\* exactly one manual_reinit_completed event, and the events the callbacks
\* publish in response end without a further reinit: no event is published
\* from inside its own delivery, the reinits and the completions never
\* outnumber the commands, and once every publish call has returned there are
\* as many reinits, and as many completions, as commands.
C34_OneReinitPerCommand ==
    /\ \A i, j \in 1..Len(dispatch) : i # j => dispatch[i].event # dispatch[j].event
    /\ ReinitsMade <= ExecutesFromOthers
    /\ CompletedPublished = ReinitsMade
    /\ dispatch = <<>> => ReinitsMade = ExecutesFromOthers

\* A command from the dashboard has been handled while the OSC service runs:
\* one reinit, one completion, one data-sent event, every call returned.
C34_Witness ==
    /\ dispatch = <<>>
    /\ ReinitsMade = 1
    /\ CompletedPublished = 1
    /\ \E i \in 1..Len(chain_log) :
          /\ chain_log[i].op = "publish" /\ ~chain_log[i].nested
          /\ chain_log[i].event = ChainEvent("STATUS_UPDATE", "execute_manual_reinit", "Dashboard")
    /\ \E i \in 1..Len(chain_log) : chain_log[i].event.type = "DATA_SENT"

\* C40: a manual reinit requested with Ctrl+F eventually leads to an
\* execute_manual_reinit command, a reinit of the manager and a
\* manual_reinit_completed event: once k keys have been read, k reinits are
\* eventually made and k completions published.
C40_RequestLeadsToReinit ==
    \A k \in 1..MaxKeys :
        (keys_pressed = k) ~> (ReinitsMade >= k /\ CompletedPublished >= k)

\* C35: the payload of a published processed-data event does not change once
\* it is published: the values the sender transmits for a delivery item are
\* the values pop_data_all_channels returned when the event was published,
\* whatever the connection thread does to the manager in between.
\* Checked under SpecViews.
C35_SentAsPublished == transmitted.sent = transmitted.published

\* The datalists received that are neither dequeued, nor queued, nor counted
\* as dropped.
Unaccounted == osc_received - Len(osc_sent) - Len(data_queue) - messages_dropped

\* C36: the sender loop dequeues the items in the order they were enqueued,
\* each at most once, and overflow is fully accounted for under every policy:
\* items received = items dequeued + items queued + messages_dropped, the
\* drops counted since the last reset, so that no step of the enqueue handler
\* or of the sender loop changes the difference.
\* Checked under SpecOSC.
C36_QueueAccounted ==
    [][/\ ret'.op \in {"_on_data_received", "_run"} => Unaccounted' = Unaccounted
       /\ \A i, j \in 1..Len(osc_sent') : i < j => osc_sent'[i] < osc_sent'[j]]_vars

\* C38: the connection thread's loop goes on until stop() clears the running
\* flag: no socket error, decode error or handler error makes it leave the
\* loop and close its sockets while the flag is set.
\* Checked under SpecRun.
C38_LoopRunsUntilStopped == service_loop = "cleaned_up" => ~zmq_running

\* C39: a failed transmission does not stop delivery: while the service runs,
\* no item is dequeued and dropped by _send_data without being sent.
\* Checked under SpecConnection.
C39_NoItemDiscarded ==
    \A i \in 1..Len(send_log) : send_log[i].outcome # "discarded"

\* C37: per channel, output is first-in first-out across successive pops:
\* the slices pop_data_all_channels returns since the last reinit, one after
\* the other, are the samples pushed to the channel in push order, none
\* skipped, repeated or out of order, while no channel holds more than
\* buffer_size unconsumed samples.  A channel's samples being numbered in push
\* order, every slice of n samples is the samples numbered
\* head_sample_number + 1 .. head_sample_number + n.
\* Checked under SpecFifo.
C37_PoppedInPushOrder ==
    [][(ret'.op = "pop_data_all_channels" /\ ret'.err = "") =>
          \A i \in 1..Len(channels) :
              ret'.popped[i] = Samples(channels[i].head_sample_number + 1,
                                       channels[i].head_sample_number + ret'.n)]_vars

====
